--------------------------- MODULE Spec2Model ---------------------------
(***************************************************************************)
(* Robot Savo LLM server: the chat-turn pipeline.                          *)
(*                                                                         *)
(* Text is modelled as a sequence of characters (one-character strings),   *)
(* so that substring matching, whitespace normalisation and slicing are    *)
(* computed the way the Python code computes them.                         *)
(***************************************************************************)
EXTENDS Integers, Sequences, FiniteSets, TLC

(***************************************************************************)
(* Bounds of the model.                                                    *)
(***************************************************************************)
\* number of fragments concatenated into an input text of classify_intent
MaxFrags == 3
\* number of chat turns in one behaviour of the pipeline
MaxTurns == 1
\* length of the reply texts handed to the clamp
MaxReplyLen == 6
\* largest configured settings.max_reply_chars
MaxCap == 6
\* number of SessionStore calls in one behaviour of the store
MaxStoreCalls == 3
\* largest configured SessionStore.max_history_turns
MaxHistoryCap == 2
\* last instant of the clock
MaxClock == 2

\* write_json_atomic: the pieces the JSON text reaches the file in, and the
\* writes followed
MaxChunks == 3

MaxWrites == 4

\* the map_lookup steps followed
MaxLookups == 4

\* the websocket connections, and the turns each sends
MaxTasks == 2

MaxTaskTurns == 1

\* dev client: the connection attempts followed, the questions typed
MaxAttempts == 4

MaxQuestions == 2

(***************************************************************************)
(* Python str primitives on character sequences.                           *)
(***************************************************************************)
None == "None"

\* str.lower(), on the letters of the modelled alphabet
LowerChar(c) ==
  CASE c = "A" -> "a" [] c = "B" -> "b" [] c = "C" -> "c" [] c = "D" -> "d"
    [] c = "E" -> "e" [] c = "F" -> "f" [] c = "G" -> "g" [] c = "H" -> "h"
    [] c = "I" -> "i" [] c = "J" -> "j" [] c = "K" -> "k" [] c = "L" -> "l"
    [] c = "M" -> "m" [] c = "N" -> "n" [] c = "O" -> "o" [] c = "P" -> "p"
    [] c = "Q" -> "q" [] c = "R" -> "r" [] c = "S" -> "s" [] c = "T" -> "t"
    [] c = "U" -> "u" [] c = "V" -> "v" [] c = "W" -> "w" [] c = "X" -> "x"
    [] c = "Y" -> "y" [] c = "Z" -> "z" [] OTHER -> c

Lower(t) == [i \in 1..Len(t) |-> LowerChar(t[i])]

\* the characters str.split() and str.strip() treat as whitespace
IsSpace(c) == c \in {" ", "\t", "\n", "\r"}

RECURSIVE LStrip(_)
LStrip(t) == IF t # <<>> /\ IsSpace(Head(t)) THEN LStrip(Tail(t)) ELSE t

RECURSIVE RStrip(_)
RStrip(t) ==
  IF t # <<>> /\ IsSpace(t[Len(t)]) THEN RStrip(SubSeq(t, 1, Len(t) - 1)) ELSE t

\* str.strip()
Strip(t) == RStrip(LStrip(t))

\* str.split(): the maximal runs of non-whitespace characters, in order
Split(t) ==
  LET first == { i \in 1..Len(t) :
                   ~ IsSpace(t[i]) /\ (i = 1 \/ IsSpace(t[i - 1])) }
      last  == { i \in 1..Len(t) :
                   ~ IsSpace(t[i]) /\ (i = Len(t) \/ IsSpace(t[i + 1])) }
      nth(set, k) ==
        CHOOSE i \in set : Cardinality({ j \in set : j < i }) = k - 1
  IN [ k \in 1..Cardinality(first) |->
         SubSeq(t, nth(first, k), nth(last, k)) ]

\* " ".join(parts)
RECURSIVE JoinSpace(_)
JoinSpace(parts) ==
  IF parts = <<>> THEN <<>>
  ELSE IF Len(parts) = 1 THEN parts[1]
  ELSE parts[1] \o <<" ">> \o JoinSpace(Tail(parts))

\* str.find(k): the first position (1-based) where k occurs in t, 0 when it
\* does not occur (Python's -1)
RECURSIVE FindFrom(_, _, _)
FindFrom(t, k, i) ==
  IF i + Len(k) - 1 > Len(t) THEN 0
  ELSE IF SubSeq(t, i, i + Len(k) - 1) = k THEN i
  ELSE FindFrom(t, k, i + 1)

Find(t, k) == FindFrom(t, k, 1)

\* k in t
In(k, t) == Find(t, k) # 0

(***************************************************************************)
(* intent.py: keyword catalogs.                                            *)
(***************************************************************************)
STOP_KEYWORDS ==
  << <<"s","t","o","p">>,
     <<"s","t","o","p"," ","n","o","w">>,
     <<"s","t","o","p"," ","p","l","e","a","s","e">>,
     <<"p","l","e","a","s","e"," ","s","t","o","p">>,
     <<"c","a","n"," ","y","o","u"," ","s","t","o","p">>,
     <<"h","a","l","t">>,
     <<"f","r","e","e","z","e">>,
     <<"w","a","i","t"," ","h","e","r","e">>,
     <<"w","a","i","t"," ","t","h","e","r","e">>,
     <<"s","t","a","y"," ","h","e","r","e">>,
     <<"s","t","a","y"," ","t","h","e","r","e">>,
     <<"s","t","a","y"," ","s","t","i","l","l">>,
     <<"s","t","a","y"," ","r","i","g","h","t"," ","t","h","e","r","e">>,
     <<"d","o"," ","n","o","t"," ","m","o","v","e">>,
     <<"d","o","n","'","t"," ","m","o","v","e">>,
     <<"d","o"," ","n","o","t"," ","g","o">>,
     <<"d","o","n","'","t"," ","g","o">>,
     <<"d","o"," ","n","o","t"," ","f","o","l","l","o","w">>,
     <<"d","o","n","'","t"," ","f","o","l","l","o","w">> >>

FOLLOW_KEYWORDS ==
  << <<"f","o","l","l","o","w"," ","m","e">>,
     <<"f","o","l","l","o","w"," ","m","y">>,
     <<"f","o","l","l","o","w"," ","u","s">>,
     <<"c","o","m","e"," ","w","i","t","h"," ","m","e">>,
     <<"c","o","m","e"," ","w","i","t","h"," ","u","s">>,
     <<"c","o","m","e"," ","w","i","t","h">>,
     <<"c","o","m","e"," ","h","e","r","e">>,
     <<"c","o","m","e"," ","b","e","h","i","n","d"," ","m","e">>,
     <<"c","o","m","e"," ","b","e","h","i","n","d"," ","u","s">>,
     <<"w","a","l","k"," ","w","i","t","h"," ","m","e">>,
     <<"w","a","l","k"," ","b","e","h","i","n","d"," ","m","e">>,
     <<"s","t","a","y"," ","w","i","t","h"," ","m","e">>,
     <<"s","t","a","y"," ","c","l","o","s","e"," ","t","o"," ","m","e">> >>

NAVIGATE_KEYWORDS ==
  << <<"t","a","k","e"," ","m","e"," ","t","o">>,
     <<"t","a","k","e"," ","m","e">>,
     <<"c","a","n"," ","y","o","u"," ","t","a","k","e"," ","m","e">>,
     <<"c","a","n"," ","u"," ","t","a","k","e"," ","m","e">>,
     <<"b","r","i","n","g"," ","m","e"," ","t","o">>,
     <<"b","r","i","n","g"," ","m","e">>,
     <<"c","a","n"," ","y","o","u"," ","b","r","i","n","g"," ","m","e">>,
     <<"c","a","n"," ","u"," ","b","r","i","n","g"," ","m","e">>,
     <<"g","u","i","d","e"," ","m","e"," ","t","o">>,
     <<"g","u","i","d","e"," ","m","e">>,
     <<"c","a","n"," ","y","o","u"," ","g","u","i","d","e">>,
     <<"c","a","n"," ","u"," ","g","u","i","d","e">>,
     <<"s","h","o","w"," ","m","e"," ","t","h","e"," ","w","a","y">>,
     <<"s","h","o","w"," ","m","e"," ","w","h","e","r","e">>,
     <<"s","h","o","w"," ","m","e">>,
     <<"i"," ","n","e","e","d"," ","t","o"," ","g","o">>,
     <<"i"," ","n","e","e","d"," ","g","o">>,
     <<"i"," ","w","a","n","t"," ","t","o"," ","g","o">>,
     <<"i"," ","w","a","n","t"," ","g","o">>,
     <<"h","e","l","p"," ","m","e"," ","f","i","n","d">>,
     <<"h","e","l","p"," ","u","s"," ","f","i","n","d">>,
     <<"g","o"," ","t","o">>,
     <<"g","o"," ","w","i","t","h"," ","m","e"," ","t","o">>,
     <<"t","a","k","e"," ","u","s"," ","t","o">>,
     <<"t","a","k","e"," ","u","s">>,
     <<"w","h","e","r","e"," ","i","s">>,
     <<"w","h","e","r","e","'","s">>,
     <<"h","o","w"," ","d","o"," ","i"," ","g","e","t"," ","t","o">>,
     <<"h","o","w"," ","c","a","n"," ","i"," ","g","e","t"," ","t","o">> >>

STATUS_KEYWORDS ==
  << <<"w","h","y"," ","d","i","d"," ","y","o","u"," ","s","t","o","p">>,
     <<"w","h","y"," ","y","o","u"," ","s","t","o","p">>,
     <<"w","h","y"," ","y","o","u"," ","s","t","o","p","p","e","d">>,
     <<"w","h","y"," ","a","r","e"," ","y","o","u"," ","s","t","o","p","p","e","d">>,
     <<"w","h","y"," ","d","i","d"," ","u"," ","s","t","o","p">>,
     <<"w","h","y"," ","y","o","u"," ","n","o","t"," ","m","o","v","i","n","g">>,
     <<"w","h","y"," ","y","o","u"," ","n","o","t"," ","m","o","v","e">>,
     <<"w","h","y"," ","y","o","u"," ","a","r","e"," ","n","o","t"," ","m","o","v","i","n","g">>,
     <<"w","h","y"," ","y","o","u"," ","a","r","e"," ","n","o","t"," ","m","o","v","i","n","g","?">>,
     <<"a","r","e"," ","y","o","u"," ","o","k">>,
     <<"a","r","e"," ","y","o","u"," ","o","k","a","y">>,
     <<"a","r","e"," ","y","o","u"," ","f","i","n","e">>,
     <<"a","r","e"," ","y","o","u"," ","b","r","o","k","e","n">>,
     <<"a","r","e"," ","y","o","u"," ","d","a","m","a","g","e","d">>,
     <<"w","h","a","t"," ","a","r","e"," ","y","o","u"," ","d","o","i","n","g">>,
     <<"w","h","a","t"," ","a","r","e"," ","y","o","u"," ","d","o","i","n","g","?">>,
     <<"w","h","a","t"," ","a","r","e"," ","y","o","u"," ","d","o","i","n","g"," ","r","i","g","h","t"," ","n","o","w">>,
     <<"w","h","a","t"," ","i","s"," ","h","a","p","p","e","n","i","n","g">>,
     <<"w","h","a","t"," ","i","s"," ","g","o","i","n","g"," ","o","n">>,
     <<"w","h","a","t"," ","i","s"," ","y","o","u","r"," ","s","t","a","t","u","s">>,
     <<"t","e","l","l"," ","m","e"," ","s","t","a","t","u","s">>,
     <<"s","t","a","t","u","s"," ","p","l","e","a","s","e">>,
     <<"w","h","a","t"," ","i","s"," ","y","o","u","r"," ","b","a","t","t","e","r","y">>,
     <<"b","a","t","t","e","r","y"," ","l","e","v","e","l">>,
     <<"b","a","t","t","e","r","y"," ","s","t","a","t","u","s">>,
     <<"h","o","w"," ","m","u","c","h"," ","b","a","t","t","e","r","y">>,
     <<"h","o","w"," ","m","u","c","h"," ","b","a","t","t","e","r","y"," ","y","o","u"," ","h","a","v","e">>,
     <<"b","a","t","t","e","r","y"," ","p","e","r","c","e","n","t">>,
     <<"b","a","t","t","e","r","y"," ","p","e","r","c","e","n","t","a","g","e">>,
     <<"t","e","m","p","e","r","a","t","u","r","e">>,
     <<"w","h","a","t"," ","i","s"," ","y","o","u","r"," ","t","e","m","p","e","r","a","t","u","r","e">>,
     <<"a","r","e"," ","y","o","u"," ","h","o","t">>,
     <<"a","r","e"," ","y","o","u"," ","o","v","e","r","h","e","a","t","i","n","g">> >>

(***************************************************************************)
(* intent.py: normalisation and classification.                            *)
(***************************************************************************)
IntentLabels == {"STOP", "FOLLOW", "NAVIGATE", "STATUS", "CHATBOT"}

\* normalize(): lowercase, trim, collapse whitespace runs to single spaces
normalize(text) == JoinSpace(Split(Strip(Lower(text))))

\* _contains_any(): the loop over the keywords, returning at the first hit
RECURSIVE contains_any_from(_, _, _)
contains_any_from(text, keywords, n) ==
  IF n > Len(keywords) THEN FALSE
  ELSE IF In(keywords[n], text) THEN TRUE
  ELSE contains_any_from(text, keywords, n + 1)

\* a plausible slip: the keyword must start the text
contains_any_prefix(text, keywords) ==
  \E n \in 1..Len(keywords) : Find(text, keywords[n]) = 1

contains_any(text, keywords) == contains_any_from(text, keywords, 1)

\* a plausible slip: FOLLOW is tested before STOP
classify_intent_follow_first(user_text) ==
  IF Strip(user_text) = <<>> THEN "CHATBOT"
  ELSE LET t == normalize(user_text) IN
    IF contains_any(t, FOLLOW_KEYWORDS) THEN "FOLLOW"
    ELSE IF contains_any(t, STOP_KEYWORDS) THEN "STOP"
    ELSE IF contains_any(t, NAVIGATE_KEYWORDS) THEN "NAVIGATE"
    ELSE IF contains_any(t, STATUS_KEYWORDS) THEN "STATUS"
    ELSE "CHATBOT"

\* classify_intent(), for string input
classify_intent(user_text) ==
  IF Strip(user_text) = <<>> THEN "CHATBOT"
  ELSE LET t == normalize(user_text) IN
    IF contains_any(t, STOP_KEYWORDS) THEN "STOP"
    ELSE IF contains_any(t, FOLLOW_KEYWORDS) THEN "FOLLOW"
    ELSE IF contains_any(t, NAVIGATE_KEYWORDS) THEN "NAVIGATE"
    ELSE IF contains_any(t, STATUS_KEYWORDS) THEN "STATUS"
    ELSE "CHATBOT"

\* is_nav_intent()
is_nav_intent(intent) == intent \in {"FOLLOW", "NAVIGATE"}

(***************************************************************************)
(* intent.py: the navigation goal guess.                                   *)
(***************************************************************************)
\* an absent optional text (Python None where a str may stand)
NoText == <<None>>

trigger_phrases ==
  << <<"t","a","k","e"," ","m","e"," ","t","o">>,
     <<"c","a","n"," ","y","o","u"," ","t","a","k","e"," ","m","e"," ","t","o">>,
     <<"c","a","n"," ","u"," ","t","a","k","e"," ","m","e"," ","t","o">>,
     <<"b","r","i","n","g"," ","m","e"," ","t","o">>,
     <<"c","a","n"," ","y","o","u"," ","b","r","i","n","g"," ","m","e"," ","t","o">>,
     <<"g","u","i","d","e"," ","m","e"," ","t","o">>,
     <<"c","a","n"," ","y","o","u"," ","g","u","i","d","e"," ","m","e"," ","t","o">>,
     <<"g","o"," ","t","o">>,
     <<"i"," ","n","e","e","d"," ","t","o"," ","g","o"," ","t","o">>,
     <<"i"," ","w","a","n","t"," ","t","o"," ","g","o"," ","t","o">>,
     <<"i"," ","n","e","e","d"," ","t","o"," ","g","o">>,
     <<"i"," ","w","a","n","t"," ","t","o"," ","g","o">>,
     <<"h","e","l","p"," ","m","e"," ","f","i","n","d">>,
     <<"h","e","l","p"," ","u","s"," ","f","i","n","d">>,
     <<"s","h","o","w"," ","m","e"," ","t","h","e"," ","w","a","y"," ","t","o">>,
     <<"s","h","o","w"," ","m","e"," ","t","h","e"," ","w","a","y">>,
     <<"s","h","o","w"," ","m","e"," ","w","h","e","r","e">>,
     <<"w","h","e","r","e"," ","i","s">>,
     <<"w","h","e","r","e","'","s">>,
     <<"h","o","w"," ","d","o"," ","i"," ","g","e","t"," ","t","o">>,
     <<"h","o","w"," ","c","a","n"," ","i"," ","g","e","t"," ","t","o">> >>

stop_words ==
  << <<"p","l","e","a","s","e">>,
     <<"n","o","w">>,
     <<"t","h","a","n","k","s">>,
     <<"t","h","a","n","k"," ","y","o","u">> >>

fillers ==
  << <<"t","h","e">>,
     <<"r","o","o","m">>,
     <<"t","o">>,
     <<"o","u","r">>,
     <<"m","y">>,
     <<"m","e">>,
     <<"u","s">> >>

\* str.strip(",.?!:;")
IsEdgePunct(c) == c \in {",", ".", "?", "!", ":", ";"}

RECURSIVE LStripPunct(_)
LStripPunct(t) ==
  IF t # <<>> /\ IsEdgePunct(Head(t)) THEN LStripPunct(Tail(t)) ELSE t

RECURSIVE RStripPunct(_)
RStripPunct(t) ==
  IF t # <<>> /\ IsEdgePunct(t[Len(t)])
    THEN RStripPunct(SubSeq(t, 1, Len(t) - 1)) ELSE t

StripPunct(t) == RStripPunct(LStripPunct(t))

\* the loop over stop_words: cut at each politeness word that is found
RECURSIVE CutStoppers(_, _)
CutStoppers(after, n) ==
  IF n > Len(stop_words) THEN after
  ELSE LET cut_idx == Find(after, stop_words[n])
       IN CutStoppers(IF cut_idx # 0
                        THEN Strip(SubSeq(after, 1, cut_idx - 1))
                        ELSE after,
                      n + 1)

\* while tokens and tokens[0] in fillers: tokens.pop(0)
RECURSIVE DropFillers(_)
DropFillers(tokens) ==
  IF tokens # <<>> /\ (\E n \in 1..Len(fillers) : fillers[n] = Head(tokens))
    THEN DropFillers(Tail(tokens)) ELSE tokens

\* _extract_after_keywords(): the loop over the triggers, from trigger n on
RECURSIVE extract_after_keywords(_, _, _)
extract_after_keywords(t, triggers, n) ==
  IF n > Len(triggers) THEN NoText
  ELSE
    LET trig == triggers[n]
        idx  == Find(t, trig)
        rest == extract_after_keywords(t, triggers, n + 1)
    IN IF idx = 0 THEN rest
       ELSE
         LET after  == CutStoppers(Strip(SubSeq(t, idx + Len(trig), Len(t))), 1)
             tokens == DropFillers(Split(after))
         IN IF tokens = <<>> THEN rest
            ELSE
              LET joined    == JoinSpace(tokens)
                  ctokens   == Split(joined)
                  capped    == IF Len(ctokens) > 4
                                 THEN JoinSpace(SubSeq(ctokens, 1, 4))
                                 ELSE joined
                  candidate == StripPunct(capped)
              IN IF candidate # <<>> THEN candidate ELSE rest

\* extract_nav_goal(), for string input
extract_nav_goal(user_text) ==
  IF Strip(user_text) = <<>> THEN NoText
  ELSE extract_after_keywords(normalize(user_text), trigger_phrases, 1)

(***************************************************************************)
(* safety.py                                                               *)
(***************************************************************************)
MAX_USER_CHARS == 512

\* the characters _CONTROL_CHARS_RE removes (U+0001 and U+007F stand for the
\* class); tab, newline and carriage return are not in it
IsControl(c) == c \in {"U+0001", "U+007F"}

RemoveControl(t) == SelectSeq(t, LAMBDA c : ~IsControl(c))

\* sanitize_user_text()
sanitize_user_text(raw_text) ==
  LET original  == IF raw_text = NoText THEN <<>> ELSE raw_text
      collapsed == JoinSpace(Split(RemoveControl(original)))
      truncated == Len(collapsed) > MAX_USER_CHARS
      cleaned   == IF truncated THEN SubSeq(collapsed, 1, MAX_USER_CHARS)
                                ELSE collapsed
      sanitized == Strip(cleaned)
  IN [original  |-> original,
      sanitized |-> sanitized,
      truncated |-> truncated,
      too_short |-> Len(sanitized) = 0]

\* a plausible slip: the cut is made without the guard for limits of 3 or
\* less, so that text[: limit - 3] counts from the end
clamp_reply_text_unguarded(reply_text, limit) ==
  LET text == IF reply_text = NoText THEN <<>> ELSE reply_text
      cut == IF limit - 3 >= 0 THEN limit - 3
             ELSE IF Len(text) + limit - 3 >= 0 THEN Len(text) + limit - 3
             ELSE 0
  IN IF limit <= 0 THEN <<>>
     ELSE IF Len(text) <= limit THEN text
     ELSE RStrip(SubSeq(text, 1, cut)) \o <<".", ".", ".">>

\* a plausible slip: the marker is appended after cutting to the limit
clamp_reply_text_marker_extra(reply_text, limit) ==
  LET text == IF reply_text = NoText THEN <<>> ELSE reply_text
  IN IF limit <= 0 THEN <<>>
     ELSE IF Len(text) <= limit THEN text
     ELSE IF limit > 3
       THEN RStrip(SubSeq(text, 1, limit)) \o <<".", ".", ".">>
       ELSE SubSeq(text, 1, limit)

\* clamp_reply_text(), with limit = settings.max_reply_chars
clamp_reply_text(reply_text, limit) ==
  LET text == IF reply_text = NoText THEN <<>> ELSE reply_text
  IN IF limit <= 0 THEN <<>>
     ELSE IF Len(text) <= limit THEN text
     ELSE IF limit > 3
       THEN RStrip(SubSeq(text, 1, limit - 3)) \o <<".", ".", ".">>
       ELSE SubSeq(text, 1, limit)

(***************************************************************************)
(* location_model.py, map_lookup.py: the location directory.               *)
(***************************************************************************)
\* the directory of the module's documentation: A201 and Info Desk
DemoDirectory ==
  << [canonical_name |-> <<"A","2","0","1">>,
      synonyms |-> << <<"r","o","o","m"," ","a","2","0","1">>, <<"a"," ","2","0","1"," ","l","a","b">> >>],
     [canonical_name |-> <<"I","n","f","o"," ","D","e","s","k">>,
      synonyms |-> << <<"r","e","c","e","p","t","i","o","n">>, <<"i","n","f","o">>, <<"i","n","f","o","r","m","a","t","i","o","n"," ","d","e","s","k">> >>] >>

\* the directory after an edit of known_locations.json: A201 has become
\* the name of another place
UpdatedDirectory ==
  << [canonical_name |-> <<"R","o","b","o","t","i","c","s"," ","L","a","b">>,
      synonyms |-> << <<"a","2","0","1">>, <<"r","o","o","m"," ","a","2","0","1">> >>],
     [canonical_name |-> <<"I","n","f","o"," ","D","e","s","k">>,
      synonyms |-> << <<"r","e","c","e","p","t","i","o","n">> >>] >>

NoLocation == [canonical_name |-> NoText, synonyms |-> <<>>]

\* the directory file on storage: absent, unreadable as a directory, or valid
LocationsFileStates == {"missing", "corrupt", "valid"}

\* Location.all_names_lower()
all_names_lower(loc) ==
  LET names == <<loc.canonical_name>> \o loc.synonyms
      kept  == SelectSeq(names, LAMBDA n : n # <<>>)
  IN [i \in 1..Len(kept) |-> Strip(Lower(kept[i]))]

\* KnownLocations.find_by_name(): the first location one of whose names is
\* the needle
RECURSIVE find_by_name_from(_, _, _)
find_by_name_from(locations, needle, i) ==
  IF i > Len(locations) THEN NoLocation
  ELSE IF \E n \in 1..Len(all_names_lower(locations[i])) :
            all_names_lower(locations[i])[n] = needle
    THEN locations[i]
    ELSE find_by_name_from(locations, needle, i + 1)

find_by_name(locations, name) ==
  IF name = NoText \/ name = <<>> THEN NoLocation
  ELSE find_by_name_from(locations, Strip(Lower(name)), 1)

\* KnownLocations.load(): an empty container when the file is missing, an
\* exception when its content is not a directory
KnownLocations_load(file) ==
  IF file = "missing" THEN [raised |-> FALSE, locations |-> <<>>]
  ELSE IF file = "corrupt" THEN [raised |-> TRUE, locations |-> <<>>]
  ELSE IF file = "updated" THEN [raised |-> FALSE, locations |-> UpdatedDirectory]
  ELSE [raised |-> FALSE, locations |-> DemoDirectory]

\* the module-level cache before the first successful load
NoCache == <<[canonical_name |-> NoText, synonyms |-> <<>>]>>

\* a plausible slip: the file is read at every call
get_known_locations_always_reload(cache, file, force_reload) ==
  LET loaded == KnownLocations_load(file)
  IN IF loaded.raised
       THEN [raised |-> TRUE, cache |-> cache, locations |-> <<>>]
       ELSE [raised |-> FALSE, cache |-> loaded.locations,
             locations |-> loaded.locations]

\* get_known_locations(): loads when the cache is empty or on force_reload;
\* a failed load leaves the cache as it was
get_known_locations(cache, file, force_reload) ==
  IF cache = NoCache \/ force_reload
    THEN LET loaded == KnownLocations_load(file)
         IN IF loaded.raised
              THEN [raised |-> TRUE, cache |-> cache, locations |-> <<>>]
              ELSE [raised |-> FALSE, cache |-> loaded.locations,
                    locations |-> loaded.locations]
    ELSE [raised |-> FALSE, cache |-> cache, locations |-> cache]

\* a plausible slip: a phrase the directory does not hold is returned as it is
resolve_nav_goal_echo(text, cache, file) ==
  IF text = NoText \/ text = <<>>
    THEN [raised |-> FALSE, cache |-> cache, goal |-> NoText]
    ELSE LET got == get_known_locations(cache, file, FALSE)
             found == find_by_name(got.locations, text).canonical_name
         IN IF got.raised
              THEN [raised |-> TRUE, cache |-> got.cache, goal |-> NoText]
              ELSE [raised |-> FALSE, cache |-> got.cache,
                    goal |-> IF found = NoText THEN text ELSE found]

\* resolve_nav_goal(): the canonical name, or None
resolve_nav_goal(text, cache, file) ==
  IF text = NoText \/ text = <<>>
    THEN [raised |-> FALSE, cache |-> cache, goal |-> NoText]
    ELSE LET got == get_known_locations(cache, file, FALSE)
         IN IF got.raised
              THEN [raised |-> TRUE, cache |-> got.cache, goal |-> NoText]
              ELSE [raised |-> FALSE, cache |-> got.cache,
                    goal |-> find_by_name(got.locations, text).canonical_name]

\* _build_locations_summary(): the canonical names listed, empty on failure
build_locations_summary(cache, file) ==
  LET got == get_known_locations(cache, file, FALSE)
  IN IF got.raised THEN [cache |-> got.cache, summary |-> <<>>]
     ELSE [cache |-> got.cache,
           summary |-> [i \in 1..Len(got.locations) |->
                          got.locations[i].canonical_name]]

(***************************************************************************)
(* pipeline.py: telemetry snapshots for the context.                       *)
(***************************************************************************)
\* a telemetry file on storage: never recorded, unreadable, or recorded
TelemetryFileStates == {"missing", "corrupt", "recorded"}

\* a plausible slip: a missing file gives the idle snapshot of the model
load_telemetry_for_meta_idle_default(file) ==
  IF file = "recorded" THEN "snapshot"
  ELSE IF file = "missing" THEN "defaulted"
  ELSE "empty"

\* _load_nav_state_for_meta(), _load_robot_status_for_meta(): the snapshot
\* when it loads, the empty dict otherwise
load_telemetry_for_meta(file) ==
  IF file = "recorded" THEN "snapshot" ELSE "empty"

(***************************************************************************)
(* tools_web.py and pipeline._attach_live_context: live facts.             *)
(***************************************************************************)
weather_triggers ==
  << <<"w","e","a","t","h","e","r">>,
     <<"t","e","m","p","e","r","a","t","u","r","e"," ","o","u","t","s","i","d","e">>,
     <<"o","u","t","s","i","d","e"," ","w","e","a","t","h","e","r">>,
     <<"c","o","l","d"," ","o","u","t","s","i","d","e">>,
     <<"h","o","t"," ","o","u","t","s","i","d","e">>,
     <<"r","a","i","n"," ","o","u","t","s","i","d","e">>,
     <<"s","n","o","w"," ","o","u","t","s","i","d","e">>,
     <<"f","o","r","e","c","a","s","t">> >>

time_triggers ==
  << <<"w","h","a","t"," ","t","i","m","e"," ","i","s"," ","i","t">>,
     <<"c","u","r","r","e","n","t"," ","t","i","m","e">>,
     <<"t","i","m","e"," ","n","o","w">>,
     <<"t","i","m","e"," ","i","n"," ","h","e","l","s","i","n","k","i">>,
     <<"l","o","c","a","l"," ","t","i","m","e">> >>

crypto_coin_aliases_btc ==
  << <<"b","t","c">>,
     <<"b","i","t","c","o","i","n">>,
     <<"x","b","t">> >>

crypto_coin_aliases_eth ==
  << <<"e","t","h">>,
     <<"e","t","h","e","r","e","u","m">> >>

crypto_coin_aliases_doge ==
  << <<"d","o","g","e">>,
     <<"d","o","g","e","c","o","i","n">> >>

crypto_coin_aliases_link ==
  << <<"l","i","n","k">>,
     <<"c","h","a","i","n","l","i","n","k">> >>

crypto_generic_triggers ==
  << <<"c","r","y","p","t","o">>,
     <<"c","o","i","n"," ","p","r","i","c","e">>,
     <<"c","o","i","n"," ","p","r","i","c","e","s">>,
     <<"c","r","y","p","t","o"," ","p","r","i","c","e">>,
     <<"c","r","y","p","t","o"," ","p","r","i","c","e","s">>,
     <<"c","r","y","p","t","o","c","u","r","r","e","n","c","y">> >>

fiat_aliases_eur ==
  << <<"e","u","r">>,
     <<"e","u","r","o">>,
     <<"EURO SIGN">> >>

fiat_aliases_usd ==
  << <<"u","s","d">>,
     <<"d","o","l","l","a","r">>,
     <<"d","o","l","l","a","r","s">>,
     <<"$">>,
     <<"u","s"," ","d","o","l","l","a","r">>,
     <<"u","s"," ","d","o","l","l","a","r","s">> >>

\* any(trig in text for trig in triggers)
AnyIn(triggers, text) == \E n \in 1..Len(triggers) : In(triggers[n], text)

\* what one HTTP GET of a fact source comes back with: a transport error, a
\* non-200 status, a body that is not JSON, JSON that is not an object, an
\* object without the expected field, or the expected object
HttpReplies ==
  {"exc", "status", "non_json", "not_object", "object_missing", "object_ok"}

\* _safe_get_json(): the replies that raise ToolsWebError
RaisesToolsWebError(reply) == reply \in {"exc", "status", "non_json"}

\* get_weather_current(): the current block, None, or an escaping
\* AttributeError (data.get on JSON that is not an object)
get_weather_current(reply) ==
  IF RaisesToolsWebError(reply) THEN [raised |-> FALSE, value |-> None]
  ELSE IF reply = "not_object" THEN [raised |-> TRUE, value |-> None]
  ELSE IF reply = "object_missing" THEN [raised |-> FALSE, value |-> None]
  ELSE [raised |-> FALSE, value |-> "current"]

\* get_local_time(): the service's time, the system clock on ToolsWebError,
\* or an escaping AttributeError
get_local_time(reply) ==
  IF RaisesToolsWebError(reply) THEN [raised |-> FALSE, value |-> "system_clock"]
  ELSE IF reply = "not_object" THEN [raised |-> TRUE, value |-> None]
  ELSE IF reply = "object_missing" THEN [raised |-> FALSE, value |-> "system_clock"]
  ELSE [raised |-> FALSE, value |-> "worldtimeapi"]

\* get_crypto_price() for an allow-listed pair: the price or None
get_crypto_price(reply) ==
  IF reply = "object_ok" THEN "price" ELSE None

Coins == {"btc", "eth", "doge", "link"}

coin_aliases(sym) ==
  CASE sym = "btc" -> crypto_coin_aliases_btc
    [] sym = "eth" -> crypto_coin_aliases_eth
    [] sym = "doge" -> crypto_coin_aliases_doge
    [] sym = "link" -> crypto_coin_aliases_link

\* the coins the text names, BTC when it only speaks of crypto in general,
\* none when it does not mention crypto
coins_requested(text) ==
  LET named == {sym \in Coins : AnyIn(coin_aliases(sym), text)}
  IN IF named # {} THEN named
     ELSE IF AnyIn(crypto_generic_triggers, text) THEN {"btc"}
     ELSE {}

\* the fiat the text names, EUR by default
vs_currency(text) ==
  IF AnyIn(fiat_aliases_eur, text) THEN "eur"
  ELSE IF AnyIn(fiat_aliases_usd, text) THEN "usd"
  ELSE "eur"

NoReply == "no_call"

\* the replies a lookup can get: it is called only when the text triggers it
WeatherReplies(clean_text) ==
  IF AnyIn(weather_triggers, Lower(clean_text)) THEN HttpReplies ELSE {NoReply}

TimeReplies(clean_text) ==
  IF AnyIn(time_triggers, Lower(clean_text)) THEN HttpReplies ELSE {NoReply}

CryptoReplies(clean_text) ==
  [coins_requested(Lower(clean_text)) -> HttpReplies]

\* _attach_live_context(): the live block (the facts present in it), or an
\* escaping exception
attach_live_context(clean_text, weather_reply, time_reply, crypto_reply) ==
  LET text    == Lower(clean_text)
      weather == IF weather_reply = NoReply
                   THEN [raised |-> FALSE, value |-> None]
                   ELSE get_weather_current(weather_reply)
      time    == IF time_reply = NoReply
                   THEN [raised |-> FALSE, value |-> None]
                   ELSE get_local_time(time_reply)
      priced  == {sym \in DOMAIN crypto_reply :
                    get_crypto_price(crypto_reply[sym]) # None}
      crypto  == {<<sym, vs_currency(text)>> : sym \in priced}
  IN IF weather.raised \/ time.raised
       THEN [raised |-> TRUE, weather |-> None, time |-> None, crypto |-> {}]
       ELSE [raised |-> FALSE, weather |-> weather.value,
             time |-> time.value, crypto |-> crypto]

(***************************************************************************)
(* Generated text.  A text returned by a provider is a sequence of tokens: *)
(* prose (characters without braces), an opening brace, a closing brace,   *)
(* and "key": value members of a JSON object.                              *)
(***************************************************************************)
Txt(chars) == [t |-> "txt", k |-> "", v |-> chars]
LB == [t |-> "lb", k |-> "", v |-> <<>>]
RB == [t |-> "rb", k |-> "", v |-> <<>>]
KV(key, value) == [t |-> "kv", k |-> key, v |-> value]

\* content.strip() on a token sequence: whitespace is trimmed off the prose
\* at both ends, and prose that becomes empty is no text at all
RECURSIVE LStripTokens(_)
LStripTokens(toks) ==
  IF toks = <<>> \/ Head(toks).t # "txt" THEN toks
  ELSE LET rest == LStrip(Head(toks).v)
       IN IF rest = <<>> THEN LStripTokens(Tail(toks))
          ELSE <<Txt(rest)>> \o Tail(toks)

RECURSIVE RStripTokens(_)
RStripTokens(toks) ==
  IF toks = <<>> \/ toks[Len(toks)].t # "txt" THEN toks
  ELSE LET rest == RStrip(toks[Len(toks)].v)
           init == SubSeq(toks, 1, Len(toks) - 1)
       IN IF rest = <<>> THEN RStripTokens(init)
          ELSE init \o <<Txt(rest)>>

StripTokens(toks) == RStripTokens(LStripTokens(toks))

\* the texts a model may answer with: prose only, prose and a malformed
\* object, an object whose reply_text is absent or empty, and objects with
\* every combination of an absent, invalid or valid intent and an absent,
\* null or proposed nav_goal
IntentMembers ==
  { <<>>, <<KV("intent", <<"D","A","N","C","E">>)>>, <<KV("intent", <<"N","A","V","I","G","A","T","E">>)>> }

GoalMembers ==
  { <<>>, <<KV("nav_goal", NoText)>>, <<KV("nav_goal", <<"C","a","f","e","t","e","r","i","a">>)>> }

ModelOutputs ==
  { <<Txt(<<" ","S","u","r","e","."," ">>)>>,
    <<Txt(<<"S","u","r","e",".">>), LB, Txt(<<"o","o","p","s">>), RB>>,
    <<Txt(<<"S","u","r","e","."," ">>), LB, KV("intent", <<"S","T","O","P">>), RB>>,
    <<LB, KV("reply_text", <<>>), KV("nav_goal", <<"C","a","f","e","t","e","r","i","a">>), RB>> }
  \cup
  { <<Txt(<<"S","u","r","e","."," ">>), LB, KV("reply_text", <<"H","i">>)>> \o i \o g \o <<RB>> :
      i \in IntentMembers, g \in GoalMembers }

\* a content string of whitespace only
BlankContent == <<Txt(<<" ", "\n">>)>>

(***************************************************************************)
(* core/config: the settings the generation chain reads.                   *)
(***************************************************************************)
AllSettings ==
  [tier1_enabled          : BOOLEAN,
   tier1_api_key          : {"", "sk-key"},
   tier1_model_candidates : {<<>>, <<"m1">>, <<"m1", "m2">>},
   tier2_enabled          : BOOLEAN,
   tier2_ollama_url       : {"", "http://localhost:11434/api/chat"},
   tier2_ollama_model     : {"llama3.2:latest"},
   max_reply_chars        : {512}]

(***************************************************************************)
(* providers: what one HTTP POST to a provider comes back with.            *)
(***************************************************************************)
\* requests.RequestException (network error, timeout), a non-200 status
\* (401 for a rejected key), a body that is not JSON, JSON that is not an
\* object, an object without the expected members, a "message" that is not
\* an object, a content that is not a string
ProviderFailureKinds ==
  {"network_error", "timeout", "status_401", "status_500", "non_json",
   "not_object", "object_missing", "message_not_object", "content_not_str"}

ProviderReplies ==
  { [kind |-> f, content |-> <<>>] : f \in ProviderFailureKinds }
  \cup
  { [kind |-> "content", content |-> c] : c \in ModelOutputs \cup {BlankContent} }

\* a plausible slip: empty content is not refused
call_tier1_model_blank_ok(cfg, reply) ==
  IF ~cfg.tier1_enabled \/ cfg.tier1_api_key = ""
    THEN [status |-> "Tier1Error", text |-> <<>>]
  ELSE IF reply.kind # "content" THEN [status |-> "Tier1Error", text |-> <<>>]
  ELSE [status |-> "ok", text |-> StripTokens(reply.content)]

\* call_tier1_model(): the stripped content, or Tier1Error
call_tier1_model(cfg, reply) ==
  IF ~cfg.tier1_enabled THEN [status |-> "Tier1Error", text |-> <<>>]
  ELSE IF cfg.tier1_api_key = "" THEN [status |-> "Tier1Error", text |-> <<>>]
  ELSE IF reply.kind \in {"network_error", "timeout"}
    THEN [status |-> "Tier1Error", text |-> <<>>]
  ELSE IF reply.kind \in {"status_401", "status_500"}
    THEN [status |-> "Tier1Error", text |-> <<>>]
  ELSE IF reply.kind = "non_json"
    THEN [status |-> "Tier1Error", text |-> <<>>]
  \* KeyError, IndexError and TypeError of data["choices"][0]["message"]["content"]
  ELSE IF reply.kind \in {"not_object", "object_missing", "message_not_object"}
    THEN [status |-> "Tier1Error", text |-> <<>>]
  ELSE IF reply.kind = "content_not_str" \/ StripTokens(reply.content) = <<>>
    THEN [status |-> "Tier1Error", text |-> <<>>]
  ELSE [status |-> "ok", text |-> StripTokens(reply.content)]

\* _call_ollama(): the stripped content, Tier2Error, or the AttributeError of
\* .get on a value that is not a dict
call_ollama(cfg, reply) ==
  IF cfg.tier2_ollama_url = "" \/ cfg.tier2_ollama_model = ""
    THEN [status |-> "Tier2Error", text |-> <<>>]
  ELSE IF reply.kind \in {"network_error", "timeout"}
    THEN [status |-> "Tier2Error", text |-> <<>>]
  ELSE IF reply.kind \in {"status_401", "status_500"}
    THEN [status |-> "Tier2Error", text |-> <<>>]
  ELSE IF reply.kind = "non_json"
    THEN [status |-> "Tier2Error", text |-> <<>>]
  \* data.get("message") on JSON that is not an object
  ELSE IF reply.kind = "not_object"
    THEN [status |-> "AttributeError", text |-> <<>>]
  \* message.get("content") on a message that is not an object
  ELSE IF reply.kind = "message_not_object"
    THEN [status |-> "AttributeError", text |-> <<>>]
  ELSE IF reply.kind \in {"object_missing", "content_not_str"}
          \/ StripTokens(reply.content) = <<>>
    THEN [status |-> "Tier2Error", text |-> <<>>]
  ELSE [status |-> "ok", text |-> StripTokens(reply.content)]

\* call_tier2_model()
call_tier2_model(cfg, reply) ==
  IF ~cfg.tier2_enabled THEN [status |-> "Tier2Error", text |-> <<>>]
  ELSE call_ollama(cfg, reply)

\* a plausible slip: the STATUS template is left empty
call_tier3_fallback_no_status(user_text, intent, nav_goal_guess) ==
  IF intent = "STOP" THEN <<"O","k","a","y",","," ","I"," ","s","t","o","p"," ","h","e","r","e"," ","a","n","d"," ","w","a","i","t",".">>
  ELSE IF intent = "STATUS" THEN <<>>
  ELSE <<"H","e","l","l","o",","," ","I"," ","a","m"," ","R","o","b","o","t"," ","S","a","v","o","."," ","H","o","w"," ","c","a","n"," ","I"," ","h","e","l","p"," ","y","o","u","?">>

\* call_tier3_fallback(): the template reply
call_tier3_fallback(user_text, intent, nav_goal_guess) ==
  LET text == Strip(user_text)
  IN IF intent = "STOP" THEN <<"O","k","a","y",","," ","I"," ","s","t","o","p"," ","h","e","r","e"," ","a","n","d"," ","w","a","i","t",".">>
     ELSE IF intent = "FOLLOW"
       THEN <<"O","k","a","y",","," ","I"," ","f","o","l","l","o","w"," ","y","o","u","."," ","P","l","e","a","s","e"," ","w","a","l","k"," ","i","n"," ","f","r","o","n","t"," ","o","f"," ","m","e"," ","s","l","o","w","l","y",".">>
     ELSE IF intent = "NAVIGATE"
       THEN IF nav_goal_guess # NoText /\ nav_goal_guess # <<>>
              THEN <<"O","k","a","y",","," ","I"," ","w","i","l","l"," ","g","u","i","d","e"," ","y","o","u"," ","t","o"," ">> \o nav_goal_guess
                   \o <<"."," ","P","l","e","a","s","e"," ","f","o","l","l","o","w"," ","m","e",".">>
              ELSE <<"I"," ","c","a","n"," ","g","u","i","d","e"," ","y","o","u"," ","i","n"," ","t","h","e"," ","b","u","i","l","d","i","n","g","."," ","P","l","e","a","s","e"," ","t","e","l","l"," ","m","e"," ","t","h","e"," ","r","o","o","m"," ","o","r"," ","p","l","a","c","e"," ","n","a","m","e",".">>
     ELSE IF intent = "STATUS"
       THEN <<"I"," ","a","m"," ","R","o","b","o","t"," ","S","a","v","o",","," ","a"," ","g","u","i","d","e"," ","r","o","b","o","t","."," ","R","i","g","h","t"," ","n","o","w"," ","I"," ","a","m"," ","j","u","s","t"," ","w","a","i","t","i","n","g"," ","h","e","r","e"," ","a","n","d"," ","r","e","a","d","y"," ","t","o"," ","h","e","l","p",".">>
     ELSE IF text # <<>>
       THEN <<"Y","o","u"," ","s","a","i","d",":"," ">> \o text
            \o <<"."," ","I"," ","a","m"," ","R","o","b","o","t"," ","S","a","v","o",","," ","h","o","w"," ","c","a","n"," ","I"," ","h","e","l","p"," ","y","o","u"," ","m","o","r","e","?">>
       ELSE <<"H","e","l","l","o",","," ","I"," ","a","m"," ","R","o","b","o","t"," ","S","a","v","o","."," ","H","o","w"," ","c","a","n"," ","I"," ","h","e","l","p"," ","y","o","u","?">>

(***************************************************************************)
(* generate.py: the result of the chain and its control flow.              *)
(***************************************************************************)
NoResult == [text |-> <<>>, used_tier |-> None, model |-> None]

\* the ModelCallResult of a tier-1 answer
Tier1Result(text, model_name) ==
  [text |-> text, used_tier |-> "tier1", model |-> model_name]

\* a plausible slip: the tier-2 result carries the tier-1 label
Tier2ResultMislabelled(text, cfg) ==
  [text |-> text, used_tier |-> "tier1", model |-> cfg.tier2_ollama_model]

\* the ModelCallResult of a tier-2 answer
Tier2Result(text, cfg) ==
  [text |-> text, used_tier |-> "tier2", model |-> cfg.tier2_ollama_model]

\* the ModelCallResult of the template tier
Tier3Result(text) ==
  [text |-> IF text = <<>> THEN <<>> ELSE <<Txt(text)>>,
   used_tier |-> "tier3", model |-> "templates"]

\* where the chain goes when tier 1 is over without an answer
AfterTier1(cfg) == IF cfg.tier2_enabled THEN "tier2" ELSE "tier3"

\* where the chain starts: tier 1 when it is enabled, has a key and has
\* candidates
GenEntry(cfg) ==
  IF cfg.tier1_enabled /\ cfg.tier1_api_key # ""
     /\ cfg.tier1_model_candidates # <<>>
    THEN "tier1" ELSE AfterTier1(cfg)

\* a plausible slip: the failed candidate is tried again
Tier1OnErrorRetry(cfg, idx) == [pc |-> "tier1", idx |-> idx]

\* a plausible slip: one failed candidate ends tier 1
Tier1OnErrorGiveUp(cfg, idx) == [pc |-> AfterTier1(cfg), idx |-> idx]

\* the for loop over the candidates after a Tier1Error: the next candidate,
\* or the end of tier 1
Tier1OnError(cfg, idx) ==
  IF idx < Len(cfg.tier1_model_candidates)
    THEN [pc |-> "tier1", idx |-> idx + 1]
    ELSE [pc |-> AfterTier1(cfg), idx |-> idx]

(***************************************************************************)
(* pipeline.py: the structured suffix of the generated text.               *)
(***************************************************************************)
\* text.rfind(brace, 0, limit): the last position before limit (1-based,
\* exclusive) holding the brace, 0 when there is none
RECURSIVE RFindToken(_, _, _)
RFindToken(toks, kind, limit) ==
  IF limit <= 1 THEN 0
  ELSE IF toks[limit - 1].t = kind THEN limit - 1
  ELSE RFindToken(toks, kind, limit - 1)

NoJson == <<[t |-> "none", k |-> "", v |-> <<>>]>>

\* json.loads() of the candidate: it decodes to a dict when the braces
\* enclose members only
DecodesToObject(candidate) ==
  /\ Len(candidate) >= 2
  /\ candidate[1].t = "lb"
  /\ candidate[Len(candidate)].t = "rb"
  /\ \A i \in 2..(Len(candidate) - 1) : candidate[i].t = "kv"

\* _extract_final_json_block(): the members of the last object, or None
extract_final_json_block(text) ==
  IF text = <<>> THEN NoJson
  ELSE LET end == RFindToken(text, "rb", Len(text) + 1)
       IN IF end = 0 THEN NoJson
          ELSE LET start == RFindToken(text, "lb", end)
               IN IF start = 0 THEN NoJson
                  ELSE LET candidate == SubSeq(text, start, end)
                       IN IF DecodesToObject(candidate)
                            THEN SubSeq(candidate, 2, Len(candidate) - 1)
                            ELSE NoJson

\* dict.get(key) on the decoded members: the value of the last member with
\* that key, None when there is none or the value is null
RECURSIVE ParsedGetFrom(_, _, _)
ParsedGetFrom(members, key, i) ==
  IF i = 0 THEN NoText
  ELSE IF members[i].k = key THEN members[i].v
  ELSE ParsedGetFrom(members, key, i - 1)

ParsedGet(members, key) == ParsedGetFrom(members, key, Len(members))

\* Python truth of an optional text
Truthy(v) == v # NoText /\ v # <<>>

\* a or b
Or(a, b) == IF Truthy(a) THEN a ELSE b

(***************************************************************************)
(* runtime_state/sessions.py: the session store.                           *)
(***************************************************************************)
MAX_HISTORY_TURNS == 8

SessionKeys == {"default", "robot-savo-session-001"}

NoSession ==
  [exists |-> FALSE, history |-> <<>>, last_intent |-> None,
   last_nav_goal |-> NoText]

\* the store as _load_from_disk() leaves it: empty, or the sessions of an
\* earlier run
StoredSessions ==
  { [sid \in SessionKeys |-> NoSession],
    [sid \in SessionKeys |->
       IF sid = "default" THEN NoSession
       ELSE [exists |-> TRUE,
             history |-> << [role |-> "user", text |-> <<"h","e","l","l","o">>],
                            [role |-> "assistant", text |-> <<"H","i">>] >>,
             last_intent |-> "CHATBOT",
             last_nav_goal |-> NoText]] }

\* get_history_as_messages()
get_history_as_messages(store, session_id) ==
  IF ~store[session_id].exists THEN <<>>
  ELSE [i \in 1..Len(store[session_id].history) |->
          [role    |-> store[session_id].history[i].role,
           content |-> store[session_id].history[i].text]]

\* a plausible slip: the slice keeps one turn more than the cap
LastTurns_one_more(history, n) ==
  IF Len(history) > n
    THEN IF n > 0
           THEN SubSeq(history, Len(history) - n, Len(history))
           ELSE SubSeq(history, 1 - n, Len(history))
    ELSE history

\* the trim: session.history[-max_history_turns:] when the history is
\* longer than max_history_turns; a slice from -0 is a slice from 0, the
\* whole list
LastTurns(history, n) ==
  IF Len(history) > n
    THEN IF n > 0
           THEN SubSeq(history, Len(history) - n + 1, Len(history))
           ELSE SubSeq(history, 1 - n, Len(history))
    ELSE history

\* a plausible slip: the texts are tested for truth, not against None, so
\* that an empty reply leaves no assistant turn
update_from_interaction_truthy(store, session_id, user_text, assistant_text, intent, nav_goal) ==
  LET session == IF store[session_id].exists THEN store[session_id]
                 ELSE [NoSession EXCEPT !.exists = TRUE]
      h1 == IF user_text # NoText /\ user_text # <<>>
              THEN Append(session.history, [role |-> "user", text |-> user_text])
              ELSE session.history
      h2 == IF assistant_text # NoText /\ assistant_text # <<>>
              THEN Append(h1, [role |-> "assistant", text |-> assistant_text])
              ELSE h1
  IN [store EXCEPT ![session_id] =
        [exists        |-> TRUE,
         history       |-> LastTurns(h2, MAX_HISTORY_TURNS),
         last_intent   |-> IF intent # None THEN intent ELSE session.last_intent,
         last_nav_goal |-> IF nav_goal # NoText THEN nav_goal
                           ELSE session.last_nav_goal]]

\* a plausible slip: the last goal is overwritten by every call
update_from_interaction_goal_overwritten(store, session_id, user_text, assistant_text, intent, nav_goal) ==
  LET session == IF store[session_id].exists THEN store[session_id]
                 ELSE [NoSession EXCEPT !.exists = TRUE]
      h1 == IF user_text # NoText
              THEN Append(session.history, [role |-> "user", text |-> user_text])
              ELSE session.history
      h2 == IF assistant_text # NoText
              THEN Append(h1, [role |-> "assistant", text |-> assistant_text])
              ELSE h1
  IN [store EXCEPT ![session_id] =
        [exists        |-> TRUE,
         history       |-> LastTurns(h2, MAX_HISTORY_TURNS),
         last_intent   |-> IF intent # None THEN intent ELSE session.last_intent,
         last_nav_goal |-> nav_goal]]

\* update_from_interaction(), with summary left at its default
update_from_interaction(store, session_id, user_text, assistant_text, intent, nav_goal) ==
  LET session == IF store[session_id].exists THEN store[session_id]
                 ELSE [NoSession EXCEPT !.exists = TRUE]
      h1 == IF user_text # NoText
              THEN Append(session.history, [role |-> "user", text |-> user_text])
              ELSE session.history
      h2 == IF assistant_text # NoText
              THEN Append(h1, [role |-> "assistant", text |-> assistant_text])
              ELSE h1
  IN [store EXCEPT ![session_id] =
        [exists        |-> TRUE,
         history       |-> LastTurns(h2, MAX_HISTORY_TURNS),
         last_intent   |-> IF intent # None THEN intent ELSE session.last_intent,
         last_nav_goal |-> IF nav_goal # NoText THEN nav_goal
                           ELSE session.last_nav_goal]]

(***************************************************************************)
(* models/chat_request.py: requests that pass input validation.            *)
(***************************************************************************)
\* user texts: one per behaviour of the turn, and a text that is a control
\* character only (it has length 1 and no whitespace to strip)
PipelineTexts ==
  { <<"s","t","o","p"," ","p","l","e","a","s","e">>,
    <<"F","o","l","l","o","w"," "," ","m","e">>,
    <<"C","a","n"," ","y","o","u"," ","t","a","k","e"," ","m","e"," ","t","o"," ","A","2","0","1","?">>,
    <<"c","a","n"," ","y","o","u"," ","t","a","k","e"," ","m","e"," ","t","o"," ","A","2","0","1">>,
    <<"t","a","k","e"," ","m","e"," ","t","o"," ","t","h","e"," ","m","o","o","n">>,
    <<"b","a","t","t","e","r","y"," ","l","e","v","e","l">>,
    <<"h","o","w"," ","i","s"," ","t","h","e"," ","w","e","a","t","h","e","r">>,
    <<"w","h","a","t"," ","t","i","m","e"," ","i","s"," ","i","t">>,
    <<"b","i","t","c","o","i","n"," ","p","r","i","c","e"," ","i","n"," ","u","s","d">>,
    <<"U+0001">> }

\* constr(min_length=1, strip_whitespace=True)
ValidUserText(text) == Len(Strip(text)) >= 1

ChatRequests ==
  [user_text       : {t \in PipelineTexts : ValidUserText(t)},
   session_id      : {None, "robot-savo-session-001"},
   meta_session_id : {None}]

(***************************************************************************)
(* State.                                                                  *)
(***************************************************************************)
VARIABLES
  cls_text,     \* classify_intent: the argument user_text
  cls_intent,   \* classify_intent: the returned label, Pending before the call
  settings,     \* core.config.settings
  locations_file,          \* known_locations.json on storage
  known_locations_cache,   \* map_lookup._known_locations_cache
  sessions,     \* session_store.state.sessions
  synced,       \* whether the last _sync() wrote sessions.json
  pc,           \* where the turn is
  turn,         \* run_pipeline: its locals
  gen,          \* generate_reply_text: its arguments and the candidate index
  calls,        \* the provider calls made by generate_reply_text, in order
  result,       \* the ModelCallResult
  response,     \* the ChatResponse returned by run_pipeline
  raised,       \* the exception that left the call
  last_update,  \* the arguments of the turn's update_from_interaction()
  turns,        \* the number of turns started
  max_history_turns,  \* SessionStore.max_history_turns
  auto_persist,       \* SessionStore.auto_persist
  state_sessions,     \* SessionStore.state.sessions, with last_seen
  disk_sessions,      \* the sessions of the snapshot in sessions.json
  now,                \* datetime.now(timezone.utc)
  appended,           \* the turns appended to each session since it was made
  last_call,          \* the last call of a SessionStore method
  store_calls,        \* the number of SessionStore calls made
  files,              \* write_json_atomic: the content of each path
  write_pc,           \* write_json_atomic: where the write is
  write_prev,         \* the snapshot in sessions.json when the write began
  write_new,          \* the snapshot being written
  writes,             \* the number of writes begun
  resolved,           \* the last call of resolve_nav_goal
  directory_loaded,   \* known_locations.json as it was when last loaded
  lookups,            \* the number of map_lookup steps taken
  nav_state_file,     \* nav_state.json on storage
  robot_status_file,  \* robot_status.json on storage
  recorded,           \* the telemetry kinds saved at least once
  task_pc,            \* each websocket task: where its handler is
  task_turns,         \* each websocket task: the frames received, the updates made
  running,            \* the task the event loop is running, NoTask between tasks
  connected,          \* each websocket task: whether its client is still there
  left_at,            \* each websocket task: the provider awaited when the client left
  shared_history,     \* the history of the session the tasks talk on
  task_io,            \* each websocket task: the last frame in, the frame its last step sent, the close code
  extracted,          \* extract_nav_goal: the text it was given, the goal it returned
  cleaned,            \* sanitize_user_text: the text it was given, the result it returned
  client_pc,          \* dev client: where run_with_reconnect / run_single_session is
  pending_payload,    \* dev client: run_with_reconnect's pending_payload
  in_flight_payload,  \* dev client: the payload sent in the REPL loop and not answered yet
  attempt,            \* dev client: run_with_reconnect's attempt
  asked,              \* dev client: the questions typed so far
  unanswered,         \* dev client: the question sent last, until its reply is received
  sent,               \* dev client: the payloads sent on the current connection
  handed               \* generate_reply_text: the meta and history it was given, the messages it built

\* the state of the chat turn
pipeline_vars ==
  <<cls_text, cls_intent, settings, locations_file, known_locations_cache,
    sessions, synced, pc, turn, gen, calls, result, response, raised,
    last_update, turns>>

\* the state of a SessionStore driven on its own
store_vars ==
  <<max_history_turns, auto_persist, state_sessions, disk_sessions, now,
    appended, last_call, store_calls>>

\* write_json_atomic() followed step by step
write_vars == <<files, write_pc, write_prev, write_new, writes>>

\* map_lookup driven on its own
lookup_vars == <<resolved, directory_loaded, lookups>>

\* the telemetry files
telemetry_vars == <<nav_state_file, robot_status_file, recorded>>

\* the websocket handlers on the event loop
task_vars ==
  <<task_pc, task_turns, running, connected, left_at, shared_history,
    task_io>>

\* one function applied to one input
unit_vars == <<extracted, cleaned, handed>>

\* the dev websocket client
client_vars ==
  <<client_pc, pending_payload, in_flight_payload, attempt, asked,
    unanswered, sent>>

tool_vars == <<unit_vars, client_vars>>

io_vars == <<write_vars, lookup_vars, telemetry_vars, task_vars, tool_vars>>

vars == <<pipeline_vars, store_vars, io_vars>>

Pending == "Pending"

NoException == [type |-> None, at |-> None, reply |-> None]

NoMeta ==
  [session_id |-> None,
   live |-> [weather |-> None, time |-> None, crypto |-> {}],
   nav_state |-> None,
   robot_status |-> None, locations_summary |-> <<>>,
   canonical_nav_goal |-> NoText,
   telemetry_flags |-> [has_nav_state |-> FALSE, has_robot_status |-> FALSE],
   conversation_history |-> <<>>]

NoTurn ==
  [session_id |-> None, clean_user_text |-> NoText, intent |-> None,
   canonical_nav_goal |-> NoText, rough_goal |-> NoText, meta |-> NoMeta]

NoGen ==
  [user_text |-> NoText, intent |-> None, nav_goal_guess |-> NoText, idx |-> 0]

NoResponse ==
  [reply_text |-> NoText, intent |-> None, nav_goal |-> NoText,
   session_id |-> None, tier_used |-> None]

NoUpdate ==
  [session_id |-> None, user_text |-> NoText, assistant_text |-> NoText,
   intent |-> None, nav_goal |-> NoText]

\* no call made yet: the operation, its argument, whether it changed the
\* state in memory, how its write went, and what it returned
NoCall ==
  [op |-> None, arg |-> None, changed |-> FALSE, write |-> None,
   returned |-> None]

\* a session id that is not a key of state.sessions
AbsentSession ==
  [exists |-> FALSE, last_seen |-> 0, last_intent |-> None,
   last_nav_goal |-> NoText, history |-> <<>>]

\* session_store = SessionStore(): the defaults, nothing called yet
StoreAtRest ==
  /\ max_history_turns = MAX_HISTORY_TURNS
  /\ auto_persist = TRUE
  /\ state_sessions = [sid \in SessionKeys |-> AbsentSession]
  /\ disk_sessions = [sid \in SessionKeys |-> AbsentSession]
  /\ now = 0
  /\ appended = [sid \in SessionKeys |-> <<>>]
  /\ last_call = NoCall
  /\ store_calls = 0

\* sessions.json, and a path without a file
SessionsPath == "sessions.json"

Paths == {"sessions.json", "sessions.json.tmp"}

NoFile == [exists |-> FALSE, data |-> 0, written |-> 0]

\* a file holding the whole of the JSON text of snapshot number data
WholeFile(data) == [exists |-> TRUE, data |-> data, written |-> MaxChunks]

\* no write under way: sessions.json holds the snapshot the store loaded
WriteAtRest ==
  /\ files = [p \in Paths |-> IF p = SessionsPath THEN WholeFile(0) ELSE NoFile]
  /\ write_pc = "idle"
  /\ write_prev = 0
  /\ write_new = 0
  /\ writes = 0

\* no call of resolve_nav_goal yet: its text, the directory on storage and
\* the directory last loaded at the call, and what came back
NoResolve ==
  [text |-> NoText, file |-> None, loaded |-> None, raised |-> FALSE,
   goal |-> NoText]

\* map_lookup imported, nothing resolved yet
LookupAtRest ==
  /\ resolved = NoResolve
  /\ directory_loaded = None
  /\ lookups = 0

\* no telemetry ever saved
TelemetryAtRest ==
  /\ nav_state_file = "missing"
  /\ robot_status_file = "missing"
  /\ recorded = {}

Tasks == 1..MaxTasks

\* the event loop between tasks
NoTask == 0

\* nothing received, nothing sent, not closed by the server
NoFrames == [frame |-> None, out |-> None, close_code |-> None]

\* no websocket accepted yet
TasksAtRest ==
  /\ task_pc = [t \in Tasks |-> "accept"]
  /\ task_turns = [t \in Tasks |-> [received |-> 0, updated |-> 0]]
  /\ running = NoTask
  /\ connected = [t \in Tasks |-> TRUE]
  /\ left_at = [t \in Tasks |-> None]
  /\ shared_history = <<>>
  /\ task_io = [t \in Tasks |-> NoFrames]

\* extract_nav_goal not called yet
NoGoal == [user_text |-> <<>>, goal |-> <<None>>, done |-> FALSE]

\* sanitize_user_text not called yet
NoSanitized ==
  [raw_text |-> <<>>,
   result |-> [original |-> <<>>, sanitized |-> <<>>, truncated |-> FALSE,
               too_short |-> FALSE],
   done |-> FALSE]

\* no message list handed yet
NoMessages ==
  [client_history |-> <<>>, stored |-> <<>>, messages |-> <<>>,
   done |-> FALSE]

\* no function applied
UnitAtRest ==
  /\ extracted = NoGoal
  /\ cleaned = NoSanitized
  /\ handed = NoMessages

\* the dev client not started
ClientAtRest ==
  /\ client_pc = "connect"
  /\ pending_payload = None
  /\ in_flight_payload = None
  /\ attempt = 0
  /\ asked = 0
  /\ unanswered = None
  /\ sent = <<>>

ToolsAtRest ==
  /\ UnitAtRest
  /\ ClientAtRest

\* what a specification does not follow stays as it is at import
IoAtRest ==
  /\ WriteAtRest
  /\ LookupAtRest
  /\ TelemetryAtRest
  /\ TasksAtRest
  /\ ToolsAtRest

\* the settings of the runs of the whole pipeline: every tier configured,
\* and the template tier alone
PipelineSettings ==
  { s \in AllSettings :
      /\ s.tier1_model_candidates = <<"m1">>
      /\ s.tier1_enabled = s.tier2_enabled
      /\ (s.tier1_api_key # "") = s.tier1_enabled
      /\ (s.tier2_ollama_url # "") = s.tier2_enabled }

(***************************************************************************)
(* generate.py: the provider chain, one action per provider call.          *)
(***************************************************************************)
Tier1Attempt ==
  /\ pc = "tier1"
  /\ \E reply \in ProviderReplies :
       LET model_name == settings.tier1_model_candidates[gen.idx]
           got == call_tier1_model(settings, reply)
           on_error == Tier1OnError(settings, gen.idx)
       IN /\ calls' = Append(calls, [tier |-> "tier1", idx |-> gen.idx,
                                     ok |-> got.status = "ok"])
          /\ IF got.status = "ok"
               THEN /\ result' = Tier1Result(got.text, model_name)
                    /\ pc' = "generated"
                    /\ gen' = gen
               ELSE /\ result' = result
                    /\ pc' = on_error.pc
                    /\ gen' = [gen EXCEPT !.idx = on_error.idx]
  /\ UNCHANGED <<store_vars, io_vars>>
  /\ UNCHANGED <<cls_text, cls_intent, settings, locations_file,
                 known_locations_cache, sessions, synced, turn, response,
                 raised, last_update, turns>>

Tier2Attempt ==
  /\ pc = "tier2"
  /\ \E reply \in ProviderReplies :
       LET got == call_tier2_model(settings, reply)
       IN /\ calls' = Append(calls, [tier |-> "tier2", idx |-> 0,
                                     ok |-> got.status = "ok"])
          /\ IF got.status = "ok"
               THEN /\ result' = Tier2Result(got.text, settings)
                    /\ pc' = "generated"
                    /\ raised' = raised
               ELSE IF got.status = "Tier2Error"
                 THEN /\ result' = result
                      /\ pc' = "tier3"
                      /\ raised' = raised
                 \* any other exception leaves generate_reply_text, and
                 \* run_pipeline with it
                 ELSE /\ result' = result
                      /\ pc' = "raised"
                      /\ raised' = [type |-> got.status, at |-> "_call_ollama",
                                    reply |-> reply.kind]
  /\ UNCHANGED <<store_vars, io_vars>>
  /\ UNCHANGED <<cls_text, cls_intent, settings, locations_file,
                 known_locations_cache, sessions, synced, turn, gen, response,
                 last_update, turns>>

Tier3Template ==
  /\ pc = "tier3"
  /\ calls' = Append(calls, [tier |-> "tier3", idx |-> 0, ok |-> TRUE])
  /\ result' = Tier3Result(call_tier3_fallback(gen.user_text, gen.intent,
                                               gen.nav_goal_guess))
  /\ pc' = "generated"
  /\ UNCHANGED <<store_vars, io_vars>>
  /\ UNCHANGED <<cls_text, cls_intent, settings, locations_file,
                 known_locations_cache, sessions, synced, turn, gen, response,
                 raised, last_update, turns>>

(***************************************************************************)
(* pipeline.py: run_pipeline, steps 1 to 7 (up to the call of the chain).  *)
(***************************************************************************)
\* chat_req.session_id or chat_req.meta.get("session_id") or "default"
resolve_session_id(req) ==
  IF req.session_id # None /\ req.session_id # "" THEN req.session_id
  ELSE IF req.meta_session_id # None /\ req.meta_session_id # ""
    THEN req.meta_session_id
  ELSE "default"

\* the rough goal phrase of step 4, for navigation intents only
rough_goal_of(intent, clean_user_text) ==
  IF is_nav_intent(intent) THEN extract_nav_goal(clean_user_text) ELSE NoText

\* step 4: the canonical goal, for navigation intents only: the rough phrase
\* is looked up, then the whole text; a directory that fails to load raises
resolve_goals(intent, rough_goal, clean_user_text, cache, file) ==
  IF ~is_nav_intent(intent)
    THEN [raised |-> FALSE, cache |-> cache, canonical |-> NoText]
    ELSE LET first == IF Truthy(rough_goal)
                        THEN resolve_nav_goal(rough_goal, cache, file)
                        ELSE [raised |-> FALSE, cache |-> cache, goal |-> NoText]
             second == IF first.raised \/ first.goal # NoText THEN first
                       ELSE resolve_nav_goal(clean_user_text, first.cache, file)
         IN [raised |-> second.raised, cache |-> second.cache,
             canonical |-> second.goal]

\* steps 1 to 7, given what steps 2 to 6 computed: the locals of the turn and
\* the arguments of the chain, or the exception that leaves run_pipeline
PrepareTurn(req, clean_user_text, intent, rough_goal, goals, listed, live, nav_file, robot_file) ==
  LET session_id == resolve_session_id(req)
      meta == [session_id           |-> session_id,
               live                 |-> [weather |-> live.weather,
                                         time |-> live.time,
                                         crypto |-> live.crypto],
               nav_state            |-> load_telemetry_for_meta(nav_file),
               robot_status         |-> load_telemetry_for_meta(robot_file),
               locations_summary    |-> listed.summary,
               canonical_nav_goal   |-> goals.canonical,
               telemetry_flags      |->
                 [has_nav_state    |-> load_telemetry_for_meta(nav_file) # "empty",
                  has_robot_status |-> load_telemetry_for_meta(robot_file) # "empty"],
               conversation_history |-> get_history_as_messages(sessions, session_id)]
      locals == [session_id         |-> session_id,
                 clean_user_text    |-> clean_user_text,
                 intent             |-> intent,
                 canonical_nav_goal |-> goals.canonical,
                 rough_goal         |-> rough_goal,
                 meta               |-> meta]
  IN IF goals.raised
       THEN [raised |-> [type |-> "LocationsLoadError",
                         at |-> "resolve_nav_goal", reply |-> None],
             cache |-> goals.cache, turn |-> NoTurn, gen |-> NoGen]
     ELSE IF live.raised
       THEN [raised |-> [type |-> "AttributeError",
                         at |-> "_attach_live_context", reply |-> None],
             cache |-> listed.cache, turn |-> NoTurn, gen |-> NoGen]
     \* ChatRequest(user_text=clean_user_text, ...) validates again
     ELSE IF ~ValidUserText(clean_user_text)
       THEN [raised |-> [type |-> "ValidationError",
                         at |-> "ChatRequest", reply |-> None],
             cache |-> listed.cache, turn |-> NoTurn, gen |-> NoGen]
     ELSE [raised |-> NoException,
           cache  |-> listed.cache,
           turn   |-> locals,
           gen    |-> [user_text      |-> Strip(clean_user_text),
                       intent         |-> intent,
                       nav_goal_guess |-> Or(goals.canonical, rough_goal),
                       idx            |-> 1]]

\* a turn of run_pipeline up to the call of the chain; each step's value is
\* bound once, in the order of the code
StartTurnWith(nav_file, robot_file) ==
  /\ pc \in {"idle", "done", "raised"}
  /\ turns < MaxTurns
  /\ \E req \in ChatRequests :
      \E clean_user_text \in {sanitize_user_text(req.user_text).sanitized} :
      \E intent \in {classify_intent(clean_user_text)} :
      \E rough_goal \in {rough_goal_of(intent, clean_user_text)} :
      \E goals \in {resolve_goals(intent, rough_goal, clean_user_text,
                                  known_locations_cache, locations_file)} :
      \E listed \in {build_locations_summary(goals.cache, locations_file)} :
      \E weather_reply \in WeatherReplies(clean_user_text),
         time_reply \in TimeReplies(clean_user_text),
         crypto_reply \in CryptoReplies(clean_user_text) :
      \E live \in {attach_live_context(clean_user_text, weather_reply,
                                       time_reply, crypto_reply)} :
      \E prepared \in {PrepareTurn(req, clean_user_text, intent, rough_goal,
                                   goals, listed, live, nav_file, robot_file)} :
        /\ known_locations_cache' = prepared.cache
        /\ turn' = prepared.turn
        /\ gen' = prepared.gen
        /\ raised' = prepared.raised
        /\ pc' = IF prepared.raised # NoException THEN "raised"
                 ELSE GenEntry(settings)
  /\ turns' = turns + 1
  /\ calls' = <<>>
  /\ result' = NoResult
  /\ response' = NoResponse
  /\ last_update' = NoUpdate
  /\ UNCHANGED <<store_vars, write_vars, lookup_vars, task_vars, tool_vars>>
  /\ UNCHANGED <<cls_text, cls_intent, settings, locations_file, sessions,
                 synced>>

\* a turn of run_pipeline, whatever the telemetry files hold
StartTurn ==
  /\ \E nav_file \in TelemetryFileStates, robot_file \in TelemetryFileStates :
       StartTurnWith(nav_file, robot_file)
  /\ UNCHANGED telemetry_vars

(***************************************************************************)
(* pipeline.py: run_pipeline, steps 9 to 11 (after the chain returned).    *)
(***************************************************************************)
\* the characters of an intent label
IntentChars(label) ==
  CASE label = "STOP" -> <<"S","T","O","P">>
    [] label = "FOLLOW" -> <<"F","O","L","L","O","W">>
    [] label = "NAVIGATE" -> <<"N","A","V","I","G","A","T","E">>
    [] label = "STATUS" -> <<"S","T","A","T","U","S">>
    [] label = "CHATBOT" -> <<"C","H","A","T","B","O","T">>

\* a plausible slip: a valid label in the payload replaces the classifier's
final_intent_from_payload(intent, model_intent) ==
  IF \E label \in IntentLabels : IntentChars(label) = model_intent
    THEN CHOOSE label \in IntentLabels : IntentChars(label) = model_intent
    ELSE intent

\* final_intent = intent
final_intent(intent, model_intent) == intent

\* a plausible slip: the goal is kept whatever the intent
final_nav_goal_kept(intent, canonical_nav_goal, model_nav_goal) ==
  Or(canonical_nav_goal, model_nav_goal)

\* a plausible slip: the goal of the payload comes first
final_nav_goal_payload_first(intent, canonical_nav_goal, model_nav_goal) ==
  IF ~is_nav_intent(intent) THEN NoText
  ELSE Or(model_nav_goal, canonical_nav_goal)

\* final_nav_goal: the canonical goal or else the payload's, None unless
\* the intent is a navigation intent
final_nav_goal(intent, canonical_nav_goal, model_nav_goal) ==
  IF ~is_nav_intent(intent) THEN NoText
  ELSE Or(canonical_nav_goal, model_nav_goal)

\* parsed.get("reply_text") or parsed.get("reply") or ""
reply_text_of(members) ==
  LET found == Or(ParsedGet(members, "reply_text"), ParsedGet(members, "reply"))
  IN IF Truthy(found) THEN found ELSE <<>>

\* steps 9 to 11 without the session update: the ChatResponse
BuildResponse(locals, res, cfg) ==
  LET json_obj == extract_final_json_block(res.text)
      parsed == IF json_obj = NoJson THEN <<>> ELSE json_obj
      intent == final_intent(locals.intent, ParsedGet(parsed, "intent"))
  IN [reply_text |-> clamp_reply_text(reply_text_of(parsed), cfg.max_reply_chars),
      intent     |-> intent,
      nav_goal   |-> final_nav_goal(intent, locals.canonical_nav_goal,
                                    ParsedGet(parsed, "nav_goal")),
      session_id |-> locals.session_id,
      tier_used  |-> res.used_tier]

FinishTurn ==
  /\ pc = "generated"
  /\ LET built == BuildResponse(turn, result, settings)
     IN /\ sessions' = update_from_interaction(sessions, turn.session_id,
                          turn.clean_user_text, built.reply_text,
                          built.intent, built.nav_goal)
        /\ last_update' = [session_id     |-> turn.session_id,
                           user_text      |-> turn.clean_user_text,
                           assistant_text |-> built.reply_text,
                           intent         |-> built.intent,
                           nav_goal       |-> built.nav_goal]
        /\ response' = built
  \* _sync(): the write succeeds or fails, and a failure is only logged
  /\ \E written \in BOOLEAN : synced' = written
  /\ pc' = "done"
  /\ UNCHANGED <<store_vars, io_vars>>
  /\ UNCHANGED <<cls_text, cls_intent, settings, locations_file,
                 known_locations_cache, turn, gen, calls, result, raised,
                 turns>>

(***************************************************************************)
(* The pipeline: turns of run_pipeline.                                    *)
(***************************************************************************)
Init ==
  /\ cls_text = <<>>
  /\ cls_intent = Pending
  /\ settings \in PipelineSettings
  /\ locations_file \in LocationsFileStates
  /\ known_locations_cache = NoCache
  /\ sessions \in StoredSessions
  /\ synced = TRUE
  /\ pc = "idle"
  /\ turn = NoTurn
  /\ gen = NoGen
  /\ calls = <<>>
  /\ result = NoResult
  /\ response = NoResponse
  /\ raised = NoException
  /\ last_update = NoUpdate
  /\ turns = 0
  /\ StoreAtRest
  /\ IoAtRest

Next ==
  \/ StartTurn
  \/ Tier1Attempt
  \/ Tier2Attempt
  \/ Tier3Template
  \/ FinishTurn

Spec == Init /\ [][Next]_vars

(***************************************************************************)
(* generate_reply_text called on bounded arguments, under every setting.   *)
(***************************************************************************)
GenerateTexts == { <<"h","e","l","l","o">>, <<"s","t","o","p"," ","p","l","e","a","s","e">> }

GenerateGoals == { NoText, <<"A","2","0","1">> }

InitGenerate ==
  /\ cls_text = <<>>
  /\ cls_intent = Pending
  /\ settings \in AllSettings
  /\ locations_file = "valid"
  /\ known_locations_cache = NoCache
  /\ sessions = [sid \in SessionKeys |-> NoSession]
  /\ synced = TRUE
  /\ pc = "idle"
  /\ turn = NoTurn
  /\ gen = NoGen
  /\ calls = <<>>
  /\ result = NoResult
  /\ response = NoResponse
  /\ raised = NoException
  /\ last_update = NoUpdate
  /\ turns = 0
  /\ StoreAtRest
  /\ IoAtRest

\* the call: prompts and messages are built, then tier 1 is entered or skipped
CallGenerate ==
  /\ pc = "idle"
  /\ \E user_text \in GenerateTexts, intent \in IntentLabels,
        nav_goal_guess \in GenerateGoals :
       gen' = [user_text |-> user_text, intent |-> intent,
               nav_goal_guess |-> nav_goal_guess, idx |-> 1]
  /\ pc' = GenEntry(settings)
  /\ UNCHANGED <<store_vars, io_vars>>
  /\ UNCHANGED <<cls_text, cls_intent, settings, locations_file,
                 known_locations_cache, sessions, synced, turn, calls, result,
                 response, raised, last_update, turns>>

NextGenerate ==
  \/ CallGenerate
  \/ Tier1Attempt
  \/ Tier2Attempt
  \/ Tier3Template

SpecGenerate == InitGenerate /\ [][NextGenerate]_vars

(***************************************************************************)
(* classify_intent applied to bounded inputs.                              *)
(***************************************************************************)
\* the pieces input texts are built from: keywords of each category, a
\* keyword split over two pieces, upper case, and whitespace runs
Fragments ==
  { <<"s","t","o","p">>, <<"d","o"," ","n","o","t">>, <<"g","o">>, <<" ">>, <<"\n", " ">>,
    <<"F","o","l","l","o","w"," ","m","e">>, <<"t","a","k","e"," ","m","e"," ","t","o">>, <<"b","a","t","t","e","r","y"," ","l","e","v","e","l">> }

RECURSIVE TextsOf(_)
TextsOf(n) ==
  IF n = 0 THEN { <<>> }
  ELSE LET shorter == TextsOf(n - 1)
       IN shorter \cup { t \o f : t \in shorter, f \in Fragments }

ClassifyTexts == TextsOf(MaxFrags)

InitClassify ==
  /\ cls_text \in ClassifyTexts
  /\ cls_intent = Pending
  /\ settings \in {s \in PipelineSettings : s.tier1_enabled}
  /\ locations_file = "valid"
  /\ known_locations_cache = NoCache
  /\ sessions = [sid \in SessionKeys |-> NoSession]
  /\ synced = TRUE
  /\ pc = "idle"
  /\ turn = NoTurn
  /\ gen = NoGen
  /\ calls = <<>>
  /\ result = NoResult
  /\ response = NoResponse
  /\ raised = NoException
  /\ last_update = NoUpdate
  /\ turns = 0
  /\ StoreAtRest
  /\ IoAtRest

Classify ==
  /\ cls_intent = Pending
  /\ cls_intent' = classify_intent(cls_text)
  /\ UNCHANGED <<store_vars, io_vars>>
  /\ UNCHANGED <<cls_text, settings, locations_file, known_locations_cache,
                 sessions, synced, pc, turn, gen, calls, result, response,
                 raised, last_update, turns>>

NextClassify == Classify

SpecClassify == InitClassify /\ [][NextClassify]_vars

(***************************************************************************)
(* run_pipeline after the chain returned (steps 9 to 11), on bounded       *)
(* generated texts, under every configured reply cap.                      *)
(***************************************************************************)
\* the reply texts of the payloads: every text of blanks and letters up to
\* the bound
RECURSIVE ReplyTextsOf(_)
ReplyTextsOf(n) ==
  IF n = 0 THEN { <<>> }
  ELSE LET shorter == ReplyTextsOf(n - 1)
       IN shorter \cup { t \o <<c>> : t \in shorter, c \in {"a", " "} }

ReplyTexts == ReplyTextsOf(MaxReplyLen)

\* results of the chain: a payload with each reply text, and a payload with
\* each proposal of a goal
ReplyResults ==
  { Tier1Result(<<LB, KV("reply_text", t), RB>>, "m1") : t \in ReplyTexts }
  \cup
  { Tier1Result(<<LB, KV("reply_text", <<"H","i">>)>> \o g \o <<RB>>, "m1") :
      g \in GoalMembers }

\* settings.max_reply_chars from below zero up to the bound
ReplySettings ==
  { [s EXCEPT !.max_reply_chars = c] :
      s \in {p \in PipelineSettings : p.tier1_enabled}, c \in (0 - 1)..MaxCap }

\* the locals of run_pipeline when the chain returns, as steps 2 to 4
\* compute them for a sanitized text and a valid directory
ReplyTurnOf(text) ==
  LET intent == classify_intent(text)
      rough_goal == rough_goal_of(intent, text)
      goals == resolve_goals(intent, rough_goal, text, NoCache, "valid")
  IN [NoTurn EXCEPT !.session_id = "default",
                    !.clean_user_text = text,
                    !.intent = intent,
                    !.canonical_nav_goal = goals.canonical,
                    !.rough_goal = rough_goal]

ReplyTurns ==
  { ReplyTurnOf(text) :
      text \in { <<"s","t","o","p"," ","p","l","e","a","s","e">>, <<"c","a","n"," ","y","o","u"," ","t","a","k","e"," ","m","e"," ","t","o"," ","A","2","0","1">>,
                 <<"t","a","k","e"," ","m","e"," ","t","o"," ","t","h","e"," ","m","o","o","n">>, <<"F","o","l","l","o","w"," ","m","e">> } }

InitReply ==
  /\ cls_text = <<>>
  /\ cls_intent = Pending
  /\ settings \in ReplySettings
  /\ locations_file = "valid"
  /\ known_locations_cache = NoCache
  /\ sessions = [sid \in SessionKeys |-> NoSession]
  /\ synced = TRUE
  /\ pc = "generated"
  /\ turn \in ReplyTurns
  /\ gen = NoGen
  /\ calls = <<>>
  /\ result \in ReplyResults
  /\ response = NoResponse
  /\ raised = NoException
  /\ last_update = NoUpdate
  /\ turns = 1
  /\ StoreAtRest
  /\ IoAtRest

NextReply == FinishTurn

SpecReply == InitReply /\ [][NextReply]_vars

(***************************************************************************)
(* runtime_state/sessions.py: a SessionStore driven on its own, under      *)
(* every max_history_turns and auto_persist.                               *)
(***************************************************************************)
\* the arguments of the calls
StoreUserTexts == { NoText, <<"h","i">> }

StoreAssistantTexts == { NoText, <<"o","k">> }

StoreIntents == { None, "CHATBOT" }

StoreMaxAges == (0 - 1)..1

\* the sessions _load_from_disk() finds in sessions.json: none, or one
\* session written by an earlier run of the same configuration
LoadedSessions(cap) ==
  { [sid \in SessionKeys |-> AbsentSession],
    [sid \in SessionKeys |->
       IF sid = "default" THEN AbsentSession
       ELSE [exists |-> TRUE, last_seen |-> 0, last_intent |-> "CHATBOT",
             last_nav_goal |-> NoText,
             history |-> IF cap >= 1
                           THEN << [role |-> "user", text |-> <<"h","e","l","l","o">>] >>
                           ELSE <<>>]] }

\* a plausible slip: a new session is stored in a fresh map
get_or_create_session_fresh_map(store, session_id, instant) ==
  IF store[session_id].exists
    THEN [store EXCEPT ![session_id].last_seen = instant]
    ELSE [sid \in SessionKeys |->
            IF sid = session_id
              THEN [AbsentSession EXCEPT !.exists = TRUE, !.last_seen = instant]
              ELSE AbsentSession]

\* get_or_create_session(): the session is made when absent, last_seen is
\* set to the instant of the call
get_or_create_session(store, session_id, instant) ==
  [store EXCEPT ![session_id] =
     IF store[session_id].exists
       THEN [store[session_id] EXCEPT !.last_seen = instant]
       ELSE [AbsentSession EXCEPT !.exists = TRUE, !.last_seen = instant]]

\* the turns one update_from_interaction() appends
NewTurns(user_text, assistant_text) ==
  (IF user_text # NoText
     THEN << [role |-> "user", text |-> user_text] >> ELSE <<>>)
  \o (IF assistant_text # NoText
        THEN << [role |-> "assistant", text |-> assistant_text] >> ELSE <<>>)

\* _sync() when auto_persist is set: the snapshot is replaced by the state
\* in memory, or the write fails and is only logged
Sync(op, arg, changed, returned) ==
  IF auto_persist
    THEN \E written \in BOOLEAN :
           /\ disk_sessions' = IF written THEN state_sessions' ELSE disk_sessions
           /\ last_call' = [op |-> op, arg |-> arg, changed |-> changed,
                            write |-> IF written THEN "ok" ELSE "failed",
                            returned |-> returned]
    ELSE /\ disk_sessions' = disk_sessions
         /\ last_call' = [op |-> op, arg |-> arg, changed |-> changed,
                          write |-> None, returned |-> returned]

\* a call that does not reach _sync()
NoSync(op, arg, changed, returned) ==
  /\ disk_sessions' = disk_sessions
  /\ last_call' = [op |-> op, arg |-> arg, changed |-> changed,
                   write |-> None, returned |-> returned]

GetOrCreateSession ==
  /\ store_calls < MaxStoreCalls
  /\ \E session_id \in SessionKeys :
       /\ state_sessions' = get_or_create_session(state_sessions, session_id, now)
       /\ appended' = IF state_sessions[session_id].exists THEN appended
                      ELSE [appended EXCEPT ![session_id] = <<>>]
       /\ NoSync("get_or_create_session", session_id,
                 state_sessions' # state_sessions, None)
  /\ store_calls' = store_calls + 1
  /\ UNCHANGED <<max_history_turns, auto_persist, now>>
  /\ UNCHANGED <<pipeline_vars, io_vars>>

DeleteSession ==
  /\ store_calls < MaxStoreCalls
  /\ \E session_id \in SessionKeys :
       IF state_sessions[session_id].exists
         THEN /\ state_sessions' = [state_sessions EXCEPT ![session_id] = AbsentSession]
              /\ appended' = [appended EXCEPT ![session_id] = <<>>]
              /\ Sync("delete_session", session_id, TRUE, TRUE)
         ELSE /\ state_sessions' = state_sessions
              /\ appended' = appended
              /\ NoSync("delete_session", session_id, FALSE, FALSE)
  /\ store_calls' = store_calls + 1
  /\ UNCHANGED <<max_history_turns, auto_persist, now>>
  /\ UNCHANGED <<pipeline_vars, io_vars>>

\* a plausible slip: the update stamps last_seen on every session
SessionStore_update_touch_all(store, session_id, user_text, assistant_text, intent, instant, cap) ==
  LET session == get_or_create_session(store, session_id, instant)[session_id]
  IN [sid \in SessionKeys |->
        IF sid = session_id
          THEN [exists        |-> TRUE,
                last_seen     |-> instant,
                last_intent   |-> IF intent # None THEN intent
                                  ELSE session.last_intent,
                last_nav_goal |-> session.last_nav_goal,
                history       |-> LastTurns(session.history
                                              \o NewTurns(user_text, assistant_text),
                                            cap)]
          ELSE IF store[sid].exists
                 THEN [store[sid] EXCEPT !.last_seen = instant]
                 ELSE store[sid]]

\* update_from_interaction(): state.sessions after the call (nav_goal is
\* not passed by these calls)
SessionStore_update_from_interaction(store, session_id, user_text, assistant_text, intent, instant, cap) ==
  LET session == get_or_create_session(store, session_id, instant)[session_id]
  IN [store EXCEPT ![session_id] =
        [exists        |-> TRUE,
         last_seen     |-> instant,
         last_intent   |-> IF intent # None THEN intent
                           ELSE session.last_intent,
         last_nav_goal |-> session.last_nav_goal,
         history       |-> LastTurns(session.history
                                       \o NewTurns(user_text, assistant_text),
                                     cap)]]

UpdateFromInteraction ==
  /\ store_calls < MaxStoreCalls
  /\ \E session_id \in SessionKeys, user_text \in StoreUserTexts,
        assistant_text \in StoreAssistantTexts, intent \in StoreIntents :
       /\ state_sessions' =
            SessionStore_update_from_interaction(state_sessions, session_id, user_text,
                                    assistant_text, intent, now,
                                    max_history_turns)
       /\ appended' =
            [appended EXCEPT ![session_id] =
               (IF state_sessions[session_id].exists THEN @ ELSE <<>>)
               \o NewTurns(user_text, assistant_text)]
       /\ Sync("update_from_interaction", session_id,
               state_sessions' # state_sessions, None)
  /\ store_calls' = store_calls + 1
  /\ UNCHANGED <<max_history_turns, auto_persist, now>>
  /\ UNCHANGED <<pipeline_vars, io_vars>>

\* a plausible slip: a session seen exactly at the cutoff is deleted too
stale_sessions_at_cutoff(store, max_age_seconds, instant) ==
  IF max_age_seconds <= 0 THEN {}
  ELSE { sid \in SessionKeys :
           /\ store[sid].exists
           /\ store[sid].last_seen <= instant - max_age_seconds }

\* prune_stale_sessions(): to_delete
stale_sessions(store, max_age_seconds, instant) ==
  IF max_age_seconds <= 0 THEN {}
  ELSE { sid \in SessionKeys :
           /\ store[sid].exists
           /\ store[sid].last_seen < instant - max_age_seconds }

PruneStaleSessions ==
  /\ store_calls < MaxStoreCalls
  /\ \E max_age_seconds \in StoreMaxAges :
       LET to_delete == stale_sessions(state_sessions, max_age_seconds, now)
       IN /\ state_sessions' = [sid \in SessionKeys |->
                                  IF sid \in to_delete THEN AbsentSession
                                  ELSE state_sessions[sid]]
          /\ appended' = [sid \in SessionKeys |->
                            IF sid \in to_delete THEN <<>> ELSE appended[sid]]
          /\ IF to_delete # {}
               THEN Sync("prune_stale_sessions", max_age_seconds, TRUE,
                         Cardinality(to_delete))
               ELSE NoSync("prune_stale_sessions", max_age_seconds, FALSE, 0)
  /\ store_calls' = store_calls + 1
  /\ UNCHANGED <<max_history_turns, auto_persist, now>>
  /\ UNCHANGED <<pipeline_vars, io_vars>>

\* time passes between calls
Tick ==
  /\ now < MaxClock
  /\ now' = now + 1
  /\ UNCHANGED <<max_history_turns, auto_persist, state_sessions,
                 disk_sessions, appended, last_call, store_calls>>
  /\ UNCHANGED <<pipeline_vars, io_vars>>

\* SessionStore.__init__(): the state is loaded from sessions.json
InitSessions ==
  /\ cls_text = <<>>
  /\ cls_intent = Pending
  /\ settings \in {s \in PipelineSettings : s.tier1_enabled}
  /\ locations_file = "valid"
  /\ known_locations_cache = NoCache
  /\ sessions = [sid \in SessionKeys |-> NoSession]
  /\ synced = TRUE
  /\ pc = "idle"
  /\ turn = NoTurn
  /\ gen = NoGen
  /\ calls = <<>>
  /\ result = NoResult
  /\ response = NoResponse
  /\ raised = NoException
  /\ last_update = NoUpdate
  /\ turns = 0
  /\ max_history_turns \in 0..MaxHistoryCap
  /\ auto_persist \in BOOLEAN
  /\ state_sessions \in LoadedSessions(max_history_turns)
  /\ disk_sessions = state_sessions
  /\ now = 0
  /\ appended = [sid \in SessionKeys |-> state_sessions[sid].history]
  /\ last_call = NoCall
  /\ store_calls = 0
  /\ IoAtRest

NextSessions ==
  \/ GetOrCreateSession
  \/ DeleteSession
  \/ UpdateFromInteraction
  \/ PruneStaleSessions
  \/ Tick

SpecSessions == InitSessions /\ [][NextSessions]_vars

(***************************************************************************)
(* runtime_state/sessions.py: the process ends and a new SessionStore is   *)
(* constructed over the sessions.json the old one left.                    *)
(***************************************************************************)
\* SessionStore.__init__() and _load_from_disk(): the file exists and
\* validates, the state in memory is the validated snapshot
Restart ==
  /\ store_calls < MaxStoreCalls
  /\ max_history_turns' \in 0..MaxHistoryCap
  /\ auto_persist' \in BOOLEAN
  /\ state_sessions' = disk_sessions
  /\ disk_sessions' = disk_sessions
  /\ appended' = [sid \in SessionKeys |-> disk_sessions[sid].history]
  /\ last_call' = [op |-> "_load_from_disk", arg |-> None, changed |-> TRUE,
                   write |-> None, returned |-> None]
  /\ store_calls' = store_calls + 1
  /\ UNCHANGED now
  /\ UNCHANGED <<pipeline_vars, io_vars>>

NextReload ==
  \/ UpdateFromInteraction
  \/ Restart

SpecReload == InitSessions /\ [][NextReload]_vars

(***************************************************************************)
(* utils/file_io.py: write_json_atomic(), as _write_to_disk() calls it for *)
(* sessions.json, one action per step on storage.                          *)
(***************************************************************************)
\* a plausible slip: the text is written to the target path itself
tmp_path_in_place(path) == path

\* tmp_path = path.with_suffix(path.suffix + ".tmp")
tmp_path(path) == "sessions.json.tmp"

\* _sync() -> _write_to_disk() -> write_json_atomic(): the parent directory
\* is made and the state is dumped to json_text
BeginWrite ==
  /\ write_pc = "idle"
  /\ writes < MaxWrites
  /\ write_pc' = "open"
  /\ write_prev' = files[SessionsPath].data
  /\ write_new' = writes + 1
  /\ writes' = writes + 1
  /\ UNCHANGED files
  /\ UNCHANGED <<pipeline_vars, store_vars, lookup_vars, telemetry_vars,
                 task_vars, tool_vars>>

\* tmp_path.write_text(json_text): the file is opened for writing, which
\* empties it
OpenTmp ==
  /\ write_pc = "open"
  /\ files' = [files EXCEPT ![tmp_path(SessionsPath)] =
                 [exists |-> TRUE, data |-> write_new, written |-> 0]]
  /\ write_pc' = "write"
  /\ UNCHANGED <<write_prev, write_new, writes>>
  /\ UNCHANGED <<pipeline_vars, store_vars, lookup_vars, telemetry_vars,
                 task_vars, tool_vars>>

\* tmp_path.write_text(json_text): one more piece of the text is in the file
WriteChunk ==
  /\ write_pc = "write"
  /\ files[tmp_path(SessionsPath)].written < MaxChunks
  /\ files' = [files EXCEPT ![tmp_path(SessionsPath)].written = @ + 1]
  /\ UNCHANGED <<write_pc, write_prev, write_new, writes>>
  /\ UNCHANGED <<pipeline_vars, store_vars, lookup_vars, telemetry_vars,
                 task_vars, tool_vars>>

\* tmp_path.replace(path): the rename of the whole file over the target
ReplaceTmp ==
  /\ write_pc = "write"
  /\ files[tmp_path(SessionsPath)].written = MaxChunks
  /\ files' = IF tmp_path(SessionsPath) = SessionsPath THEN files
              ELSE [p \in Paths |->
                      IF p = SessionsPath THEN files[tmp_path(SessionsPath)]
                      ELSE NoFile]
  /\ write_pc' = "idle"
  /\ UNCHANGED <<write_prev, write_new, writes>>
  /\ UNCHANGED <<pipeline_vars, store_vars, lookup_vars, telemetry_vars,
                 task_vars, tool_vars>>

\* an OSError at the open, during the write or at the rename (or the end of
\* the process there): it is logged and raised again, _sync() logs it; what
\* is on storage stays
WriteFails ==
  /\ write_pc \in {"open", "write"}
  /\ write_pc' = "idle"
  /\ UNCHANGED <<files, write_prev, write_new, writes>>
  /\ UNCHANGED <<pipeline_vars, store_vars, lookup_vars, telemetry_vars,
                 task_vars, tool_vars>>

InitWrite ==
  /\ cls_text = <<>>
  /\ cls_intent = Pending
  /\ settings \in {s \in PipelineSettings : s.tier1_enabled}
  /\ locations_file = "valid"
  /\ known_locations_cache = NoCache
  /\ sessions = [sid \in SessionKeys |-> NoSession]
  /\ synced = TRUE
  /\ pc = "idle"
  /\ turn = NoTurn
  /\ gen = NoGen
  /\ calls = <<>>
  /\ result = NoResult
  /\ response = NoResponse
  /\ raised = NoException
  /\ last_update = NoUpdate
  /\ turns = 0
  /\ StoreAtRest
  /\ WriteAtRest
  /\ LookupAtRest
  /\ TelemetryAtRest
  /\ TasksAtRest
  /\ ToolsAtRest

NextWrite ==
  \/ BeginWrite
  \/ OpenTmp
  \/ WriteChunk
  \/ ReplaceTmp
  \/ WriteFails

SpecWrite == InitWrite /\ [][NextWrite]_vars

(***************************************************************************)
(* core/map_lookup.py driven on its own: lookups, edits of the stored      *)
(* directory, and forced reloads.                                          *)
(***************************************************************************)
\* known_locations.json on storage, the edited directory included
DirectoryFileStates == LocationsFileStates \cup {"updated"}

\* the texts looked up
LookupTexts == { NoText, <<"a","2","0","1">>, <<"R","e","c","e","p","t","i","o","n">> }

\* resolve_nav_goal(text)
ResolveNavGoal ==
  /\ lookups < MaxLookups
  /\ \E text \in LookupTexts :
       LET got == resolve_nav_goal(text, known_locations_cache, locations_file)
           loaded == IF /\ text # NoText
                        /\ known_locations_cache = NoCache
                        /\ ~ got.raised
                       THEN locations_file
                       ELSE directory_loaded
       IN /\ known_locations_cache' = got.cache
          /\ directory_loaded' = loaded
          /\ resolved' = [text |-> text, file |-> locations_file,
                          loaded |-> loaded, raised |-> got.raised,
                          goal |-> got.goal]
  /\ lookups' = lookups + 1
  /\ UNCHANGED <<cls_text, cls_intent, settings, locations_file, sessions,
                 synced, pc, turn, gen, calls, result, response, raised,
                 last_update, turns>>
  /\ UNCHANGED <<store_vars, write_vars, telemetry_vars, task_vars, tool_vars>>

\* get_known_locations(force_reload=True)
ForceReload ==
  /\ lookups < MaxLookups
  /\ LET got == get_known_locations(known_locations_cache, locations_file, TRUE)
     IN /\ known_locations_cache' = got.cache
        /\ directory_loaded' = IF got.raised THEN directory_loaded
                               ELSE locations_file
  /\ lookups' = lookups + 1
  /\ UNCHANGED resolved
  /\ UNCHANGED <<cls_text, cls_intent, settings, locations_file, sessions,
                 synced, pc, turn, gen, calls, result, response, raised,
                 last_update, turns>>
  /\ UNCHANGED <<store_vars, write_vars, telemetry_vars, task_vars, tool_vars>>

\* known_locations.json is edited, removed or damaged on storage
StoreDirectory ==
  /\ lookups < MaxLookups
  /\ locations_file' \in DirectoryFileStates \ {locations_file}
  /\ lookups' = lookups + 1
  /\ UNCHANGED <<resolved, directory_loaded>>
  /\ UNCHANGED <<cls_text, cls_intent, settings, known_locations_cache,
                 sessions, synced, pc, turn, gen, calls, result, response,
                 raised, last_update, turns>>
  /\ UNCHANGED <<store_vars, write_vars, telemetry_vars, task_vars, tool_vars>>

InitLocations ==
  /\ cls_text = <<>>
  /\ cls_intent = Pending
  /\ settings \in {s \in PipelineSettings : s.tier1_enabled}
  /\ locations_file \in DirectoryFileStates
  /\ known_locations_cache = NoCache
  /\ sessions = [sid \in SessionKeys |-> NoSession]
  /\ synced = TRUE
  /\ pc = "idle"
  /\ turn = NoTurn
  /\ gen = NoGen
  /\ calls = <<>>
  /\ result = NoResult
  /\ response = NoResponse
  /\ raised = NoException
  /\ last_update = NoUpdate
  /\ turns = 0
  /\ StoreAtRest
  /\ WriteAtRest
  /\ LookupAtRest
  /\ TelemetryAtRest
  /\ TasksAtRest
  /\ ToolsAtRest

NextLocations ==
  \/ ResolveNavGoal
  \/ ForceReload
  \/ StoreDirectory

SpecLocations == InitLocations /\ [][NextLocations]_vars

(***************************************************************************)
(* routers/map.py, routers/ws.py and pipeline.py: telemetry is saved by    *)
(* the robot's frames, and read by the turns.                              *)
(***************************************************************************)
TelemetryKinds == {"nav_state", "robot_status"}

\* one frame of telemetry is saved: the file holds it, or the save fails and
\* the file is left as it was (write_json_atomic) or cut short (write_text)
SaveTelemetry(file, kind) ==
  \E saved \in BOOLEAN :
    IF saved
      THEN /\ file' = "recorded"
           /\ recorded' = recorded \cup {kind}
      ELSE /\ file' \in {file, "corrupt"}
           /\ recorded' = recorded

\* POST /map/navstate, or a navstate frame on /ws/telemetry
RecordNavState ==
  /\ SaveTelemetry(nav_state_file, "nav_state")
  /\ UNCHANGED robot_status_file
  /\ UNCHANGED <<pipeline_vars, store_vars, write_vars, lookup_vars, task_vars, tool_vars>>

\* POST /map/status, or a status frame on /ws/telemetry
RecordRobotStatus ==
  /\ SaveTelemetry(robot_status_file, "robot_status")
  /\ UNCHANGED nav_state_file
  /\ UNCHANGED <<pipeline_vars, store_vars, write_vars, lookup_vars, task_vars, tool_vars>>

\* a turn of run_pipeline over the files as they are
StartTurnOnFiles ==
  /\ StartTurnWith(nav_state_file, robot_status_file)
  /\ UNCHANGED telemetry_vars

\* the server starts over files a robot may have left
InitTelemetry ==
  /\ cls_text = <<>>
  /\ cls_intent = Pending
  /\ settings \in {s \in PipelineSettings : ~ s.tier1_enabled}
  /\ locations_file = "valid"
  /\ known_locations_cache = NoCache
  /\ sessions = [sid \in SessionKeys |-> NoSession]
  /\ synced = TRUE
  /\ pc = "idle"
  /\ turn = NoTurn
  /\ gen = NoGen
  /\ calls = <<>>
  /\ result = NoResult
  /\ response = NoResponse
  /\ raised = NoException
  /\ last_update = NoUpdate
  /\ turns = 0
  /\ StoreAtRest
  /\ WriteAtRest
  /\ LookupAtRest
  /\ TasksAtRest
  /\ ToolsAtRest
  /\ nav_state_file \in TelemetryFileStates
  /\ robot_status_file \in TelemetryFileStates
  /\ recorded = { kind \in TelemetryKinds :
                    IF kind = "nav_state" THEN nav_state_file = "recorded"
                    ELSE robot_status_file = "recorded" }

NextTelemetry ==
  \/ RecordNavState
  \/ RecordRobotStatus
  \/ StartTurnOnFiles

SpecTelemetry == InitTelemetry /\ [][NextTelemetry]_vars

(***************************************************************************)
(* routers/ws.py: the /ws/chat handlers as tasks of one event loop, each   *)
(* turn going through run_pipeline.  A task keeps the loop from the point  *)
(* it is resumed to its next await; all tasks talk on one session.         *)
(***************************************************************************)
\* a plausible slip: the provider calls are awaited
is_suspension_point_provider_awaited(at) ==
  at \in {"receive_json", "send_json", "raised", "closed",
          "tier1", "tier2", "tier3"}

\* the awaits of websocket_chat: accept, receive_json, send_json, and
\* _send_error and close after a failure; run_pipeline awaits nothing, its
\* provider calls are blocking requests
is_suspension_point(at) ==
  at \in {"receive_json", "send_json", "raised", "closed"}

\* the task may take a step: the loop is free, or the task holds it
MayRun(t) == running \in {NoTask, t}

\* the step of task t ends at the point to
StepTo(t, to) ==
  /\ task_pc' = [task_pc EXCEPT ![t] = to]
  /\ running' = IF is_suspension_point(to) THEN NoTask ELSE t

ProviderPoints == {"tier1", "tier2", "tier3"}

\* the step of task t sends the frame out (None: it sends nothing)
Sends(t, out) == task_io' = [task_io EXCEPT ![t].out = out]

\* what receive_json hands over: an object ChatRequest accepts, an object it
\* rejects, or something ChatRequest(**raw) cannot take (a JSON array, a bare
\* string, text that is no JSON)
FrameShapes == {"valid", "invalid", "malformed"}

\* a plausible slip: the frame is handed to run_pipeline unvalidated
frame_outcomes_unvalidated(shape) ==
  IF shape = "malformed" THEN {"closed"} ELSE {"tier1", "raised"}

\* where the step that reads a frame ends: ValidationError is answered and
\* the loop continues; a valid request enters run_pipeline, which reaches
\* the chain or raises before it; anything else raised by the read or by
\* ChatRequest(**raw) lands in the outer handler, which closes with 1011
frame_outcomes(shape) ==
  CASE shape = "valid" -> {"tier1", "raised"}
    [] shape = "invalid" -> {"receive_json"}
    [] OTHER -> {"closed"}

\* after a pipeline failure: close(code=1011) and return
point_after_error == "closed"

\* nothing but the tasks moves
OnlyTasks ==
  UNCHANGED <<pipeline_vars, store_vars, write_vars, lookup_vars,
              telemetry_vars, tool_vars>>

\* await websocket.accept()
Accept(t) ==
  /\ task_pc[t] = "accept"
  /\ MayRun(t)
  /\ StepTo(t, "receive_json")
  /\ Sends(t, None)
  /\ UNCHANGED <<task_turns, connected, left_at, shared_history>>
  /\ OnlyTasks

\* a frame arrives and the task is resumed: an invalid ChatRequest is
\* answered with an error frame; a valid one enters run_pipeline, which
\* reads the history and enriches the request, then calls the chain (or
\* raises before it); a closed socket raises WebSocketDisconnect
ReceiveFrame(t) ==
  /\ task_pc[t] = "receive_json"
  /\ MayRun(t)
  /\ IF ~ connected[t]
       THEN /\ StepTo(t, "closed")
            /\ Sends(t, None)
            /\ UNCHANGED task_turns
       ELSE /\ task_turns[t].received < MaxTaskTurns
            /\ task_turns' = [task_turns EXCEPT ![t].received = @ + 1]
            /\ \E shape \in FrameShapes :
                 /\ \E to \in frame_outcomes(shape) : StepTo(t, to)
                 /\ task_io' =
                      [task_io EXCEPT
                         ![t].frame = shape,
                         ![t].out = IF task_pc'[t] = "receive_json"
                                      THEN "invalid_chat_request" ELSE None,
                         ![t].close_code = IF task_pc'[t] = "closed"
                                             THEN "1011" ELSE None]
  /\ UNCHANGED <<connected, left_at, shared_history>>
  /\ OnlyTasks

\* generate_reply_text(): the tier-1 request comes back
Tier1Returns(t) ==
  /\ task_pc[t] = "tier1"
  /\ MayRun(t)
  /\ \E to \in {"generated", "tier2"} : StepTo(t, to)
  /\ Sends(t, None)
  /\ UNCHANGED <<task_turns, connected, left_at, shared_history>>
  /\ OnlyTasks

\* generate_reply_text(): the tier-2 request comes back, with a reply, a
\* Tier2Error, or an exception that leaves run_pipeline
Tier2Returns(t) ==
  /\ task_pc[t] = "tier2"
  /\ MayRun(t)
  /\ \E to \in {"generated", "tier3", "raised"} : StepTo(t, to)
  /\ Sends(t, None)
  /\ UNCHANGED <<task_turns, connected, left_at, shared_history>>
  /\ OnlyTasks

\* generate_reply_text(): the template answers
Tier3Returns(t) ==
  /\ task_pc[t] = "tier3"
  /\ MayRun(t)
  /\ StepTo(t, "generated")
  /\ Sends(t, None)
  /\ UNCHANGED <<task_turns, connected, left_at, shared_history>>
  /\ OnlyTasks

\* run_pipeline, step 11: update_from_interaction appends the two turns and
\* writes the snapshot; the handler goes on to send the response
UpdateSession(t) ==
  /\ task_pc[t] = "generated"
  /\ MayRun(t)
  /\ shared_history' =
       LastTurns(shared_history
                   \o << [task |-> t, turn |-> task_turns[t].received,
                          role |-> "user"],
                         [task |-> t, turn |-> task_turns[t].received,
                          role |-> "assistant"] >>,
                 MAX_HISTORY_TURNS)
  /\ task_turns' = [task_turns EXCEPT ![t].updated = @ + 1]
  /\ StepTo(t, "send_json")
  /\ Sends(t, None)
  /\ UNCHANGED <<connected, left_at>>
  /\ OnlyTasks

\* await websocket.send_json(payload): sent, or WebSocketDisconnect
SendJson(t) ==
  /\ task_pc[t] = "send_json"
  /\ MayRun(t)
  /\ StepTo(t, IF connected[t] THEN "receive_json" ELSE "closed")
  /\ Sends(t, IF connected[t] THEN "chat_response" ELSE None)
  /\ UNCHANGED <<task_turns, connected, left_at, shared_history>>
  /\ OnlyTasks

\* run_pipeline raised: the error frame, then close(code=1011)
PipelineError(t) ==
  /\ task_pc[t] = "raised"
  /\ MayRun(t)
  /\ StepTo(t, point_after_error)
  /\ task_io' = [task_io EXCEPT
                    ![t].out = IF connected[t] THEN "pipeline_error" ELSE None,
                    ![t].close_code = "1011"]
  /\ UNCHANGED <<task_turns, connected, left_at, shared_history>>
  /\ OnlyTasks

\* the client of task t goes away, wherever the task is; what is kept is
\* whether a provider request was pending then, and which
ClientDisconnects(t) ==
  /\ connected[t]
  /\ task_pc[t] # "closed"
  /\ connected' = [connected EXCEPT ![t] = FALSE]
  /\ left_at' = [left_at EXCEPT ![t] =
                    IF task_pc[t] \in {"tier1", "tier2"} THEN task_pc[t]
                    ELSE "elsewhere"]
  /\ UNCHANGED <<task_pc, task_turns, running, shared_history, task_io>>
  /\ OnlyTasks

InitTasks ==
  /\ cls_text = <<>>
  /\ cls_intent = Pending
  /\ settings \in {s \in PipelineSettings : s.tier1_enabled}
  /\ locations_file = "valid"
  /\ known_locations_cache = NoCache
  /\ sessions = [sid \in SessionKeys |-> NoSession]
  /\ synced = TRUE
  /\ pc = "idle"
  /\ turn = NoTurn
  /\ gen = NoGen
  /\ calls = <<>>
  /\ result = NoResult
  /\ response = NoResponse
  /\ raised = NoException
  /\ last_update = NoUpdate
  /\ turns = 0
  /\ StoreAtRest
  /\ IoAtRest

NextTasks ==
  \/ \E t \in Tasks : Accept(t)
  \/ \E t \in Tasks : ReceiveFrame(t)
  \/ \E t \in Tasks : Tier1Returns(t)
  \/ \E t \in Tasks : Tier2Returns(t)
  \/ \E t \in Tasks : Tier3Returns(t)
  \/ \E t \in Tasks : UpdateSession(t)
  \/ \E t \in Tasks : SendJson(t)
  \/ \E t \in Tasks : PipelineError(t)
  \/ \E t \in Tasks : ClientDisconnects(t)

SpecTasks == InitTasks /\ [][NextTasks]_vars


(***************************************************************************)
(* extract_nav_goal applied to bounded inputs.                             *)
(***************************************************************************)
\* the pieces the texts are handed from: triggers, fillers, politeness
\* words, punctuation standing alone or glued to a word, a long phrase
GoalFragments ==
  { <<"g","o"," ","t","o">>, <<"T","a","k","e"," ","m","e"," ","t","o">>, <<"w","h","e","r","e"," ","i","s">>, <<" ","t","h","e">>, <<" ","l","a","b">>,
    <<" ","p","l","e","a","s","e">>, <<" ",".">>, <<" ",",","t","h","e">>, <<" ","i","n","f","o"," ","d","e","s","k"," ","n","e","a","r"," ","t","h","e"," ","s","t","a","i","r","s">> }

RECURSIVE TextsFrom(_, _)
TextsFrom(fragments, n) ==
  IF n = 0 THEN { <<>> }
  ELSE LET shorter == TextsFrom(fragments, n - 1)
       IN shorter \cup { t \o f : t \in shorter, f \in fragments }

GoalTexts == TextsFrom(GoalFragments, MaxFrags)

InitExtract ==
  /\ cls_text = <<>>
  /\ cls_intent = Pending
  /\ settings \in {s \in PipelineSettings : s.tier1_enabled}
  /\ locations_file = "valid"
  /\ known_locations_cache = NoCache
  /\ sessions = [sid \in SessionKeys |-> NoSession]
  /\ synced = TRUE
  /\ pc = "idle"
  /\ turn = NoTurn
  /\ gen = NoGen
  /\ calls = <<>>
  /\ result = NoResult
  /\ response = NoResponse
  /\ raised = NoException
  /\ last_update = NoUpdate
  /\ turns = 0
  /\ StoreAtRest
  /\ WriteAtRest
  /\ LookupAtRest
  /\ TelemetryAtRest
  /\ TasksAtRest
  /\ ClientAtRest
  /\ extracted \in { [NoGoal EXCEPT !.user_text = t] : t \in GoalTexts }
  /\ cleaned = NoSanitized
  /\ handed = NoMessages

ExtractNavGoal ==
  /\ ~ extracted.done
  /\ extracted' = [extracted EXCEPT !.goal = 
                         extract_nav_goal(extracted.user_text),
                                    !.done = TRUE]
  /\ UNCHANGED <<pipeline_vars, store_vars, write_vars, lookup_vars,
                 telemetry_vars, task_vars, client_vars, cleaned, handed>>

NextExtract == ExtractNavGoal

SpecExtract == InitExtract /\ [][NextExtract]_vars

(***************************************************************************)
(* sanitize_user_text applied to bounded inputs.                           *)
(***************************************************************************)
\* the pieces the texts are handed from: letters, whitespace of each kind
\* and in runs, a character of the removed class, and U+009B, a control
\* character (category Cc) outside the ranges of _CONTROL_CHARS_RE
SanitizeFragments ==
  { <<"a">>, <<" ">>, <<" ", "\n">>, <<"\t">>, <<"b"," ","c">>, <<"U+0001">>,
    <<"U+009B">> }

\* a text of n letters
Letters(n) == [i \in 1..n |-> "x"]

\* no text, short texts, and texts around the cap
SanitizeTexts ==
  {NoText} \cup
  { Letters(n) \o t : n \in {0, MAX_USER_CHARS - 1},
                      t \in TextsFrom(SanitizeFragments, MaxFrags) }

InitSanitize ==
  /\ cls_text = <<>>
  /\ cls_intent = Pending
  /\ settings \in {s \in PipelineSettings : s.tier1_enabled}
  /\ locations_file = "valid"
  /\ known_locations_cache = NoCache
  /\ sessions = [sid \in SessionKeys |-> NoSession]
  /\ synced = TRUE
  /\ pc = "idle"
  /\ turn = NoTurn
  /\ gen = NoGen
  /\ calls = <<>>
  /\ result = NoResult
  /\ response = NoResponse
  /\ raised = NoException
  /\ last_update = NoUpdate
  /\ turns = 0
  /\ StoreAtRest
  /\ WriteAtRest
  /\ LookupAtRest
  /\ TelemetryAtRest
  /\ TasksAtRest
  /\ ClientAtRest
  /\ extracted = NoGoal
  /\ cleaned \in { [NoSanitized EXCEPT !.raw_text = t] : t \in SanitizeTexts }
  /\ handed = NoMessages

SanitizeUserText ==
  /\ ~ cleaned.done
  /\ cleaned' = [cleaned EXCEPT !.result = sanitize_user_text(cleaned.raw_text),
                                !.done = TRUE]
  /\ UNCHANGED <<pipeline_vars, store_vars, write_vars, lookup_vars,
                 telemetry_vars, task_vars, client_vars, extracted, handed>>

NextSanitize == SanitizeUserText

SpecSanitize == InitSanitize /\ [][NextSanitize]_vars

(***************************************************************************)
(* The message list of generate_reply_text, for bounded histories.         *)
(***************************************************************************)
\* the turns a stored history is made of
StoredTurns ==
  [role : {"user", "assistant"}, text : { <<"h","e","l","l","o">>, <<"g","o">> }]

RECURSIVE HistoriesUpTo(_)
HistoriesUpTo(n) ==
  IF n = 0 THEN { <<>> }
  ELSE LET shorter == HistoriesUpTo(n - 1)
       IN shorter \cup { Append(h, t) : h \in shorter, t \in StoredTurns }

\* the histories get_history_as_messages() may find in the store
StoredHistories == HistoriesUpTo(MaxTurns + 1)

\* meta["conversation_history"] as the client may send it: absent, or a
\* list of its own making
ClientHistories ==
  { <<>>,
    << [role |-> "user", content |-> <<"f","o","r","g","e","d">>] >>,
    << [role |-> "assistant", content |-> <<"f","o","r","g","e","d">>] >>,
    << [role |-> "system", content |-> <<"f","o","r","g","e","d">>],
       [role |-> "user", content |-> <<"f","o","r","g","e","d">>] >> }

\* history as get_history_as_messages() returns it
AsMessages(history) ==
  [i \in 1..Len(history) |->
     [role |-> history[i].role, content |-> history[i].text]]

\* run_pipeline, step 6: base_meta starts as a copy of the client's meta;
\* the key conversation_history is set only if history_messages is not
\* empty
meta_conversation_history(client_history, history_messages) ==
  IF history_messages # <<>> THEN history_messages ELSE client_history

\* _inject_conversation_history(): the entries with role user or assistant
\* and non-empty content are appended, content stripped
inject_conversation_history(messages, history) ==
  messages \o
    LET kept == SelectSeq(history,
                  LAMBDA m : /\ m.role \in {"user", "assistant"}
                             /\ Strip(m.content) # <<>>)
    IN [i \in 1..Len(kept) |->
          [role |-> kept[i].role, content |-> Strip(kept[i].content)]]

\* generate_reply_text(), step 2: system message, history, user message
build_messages(history) ==
  Append(inject_conversation_history(
           << [role |-> "system", content |-> <<"system_prompt">>] >>,
           history),
         [role |-> "user", content |-> <<"user_prompt">>])

InitMessages ==
  /\ cls_text = <<>>
  /\ cls_intent = Pending
  /\ settings \in {s \in PipelineSettings : s.tier1_enabled}
  /\ locations_file = "valid"
  /\ known_locations_cache = NoCache
  /\ sessions = [sid \in SessionKeys |-> NoSession]
  /\ synced = TRUE
  /\ pc = "idle"
  /\ turn = NoTurn
  /\ gen = NoGen
  /\ calls = <<>>
  /\ result = NoResult
  /\ response = NoResponse
  /\ raised = NoException
  /\ last_update = NoUpdate
  /\ turns = 0
  /\ StoreAtRest
  /\ WriteAtRest
  /\ LookupAtRest
  /\ TelemetryAtRest
  /\ TasksAtRest
  /\ ClientAtRest
  /\ extracted = NoGoal
  /\ cleaned = NoSanitized
  /\ handed \in { [NoMessages EXCEPT !.client_history = c, !.stored = h] :
                    c \in ClientHistories, h \in StoredHistories }

BuildMessages ==
  /\ ~ handed.done
  /\ handed' =
       [handed EXCEPT
          !.messages = build_messages(
                         meta_conversation_history(handed.client_history,
                                                   AsMessages(handed.stored))),
          !.done = TRUE]
  /\ UNCHANGED <<pipeline_vars, store_vars, write_vars, lookup_vars,
                 telemetry_vars, task_vars, client_vars, extracted,
                 cleaned>>

NextMessages == BuildMessages

SpecMessages == InitMessages /\ [][NextMessages]_vars

(***************************************************************************)
(* update_from_interaction called turn after turn: the last intent and     *)
(* the last navigation goal.                                               *)
(***************************************************************************)
\* the nav_goal of a call: none, or a canonical name
GoalArguments == { NoText, <<"A","2","0","1">>, <<"I","n","f","o"," ","D","e","s","k">> }

\* the intent of a call: none, or a label
IntentArguments == {None} \cup IntentLabels

InitGoals ==
  /\ cls_text = <<>>
  /\ cls_intent = Pending
  /\ settings \in {s \in PipelineSettings : s.tier1_enabled}
  /\ locations_file = "valid"
  /\ known_locations_cache = NoCache
  /\ sessions = [sid \in SessionKeys |-> NoSession]
  /\ synced = TRUE
  /\ pc = "idle"
  /\ turn = NoTurn
  /\ gen = NoGen
  /\ calls = <<>>
  /\ result = NoResult
  /\ response = NoResponse
  /\ raised = NoException
  /\ last_update = NoUpdate
  /\ turns = 0
  /\ StoreAtRest
  /\ IoAtRest

RecordInteraction ==
  /\ turns < MaxTurns + 1
  /\ \E session_id \in SessionKeys, intent \in IntentArguments,
        nav_goal \in GoalArguments :
       /\ sessions' = update_from_interaction(sessions, session_id,
                        <<"h","e","l","l","o">>, <<"H","i">>, intent, nav_goal)
       /\ last_update' = [session_id     |-> session_id,
                          user_text      |-> <<"h","e","l","l","o">>,
                          assistant_text |-> <<"H","i">>,
                          intent         |-> intent,
                          nav_goal       |-> nav_goal]
  /\ turns' = turns + 1
  /\ UNCHANGED <<store_vars, io_vars>>
  /\ UNCHANGED <<cls_text, cls_intent, settings, locations_file,
                 known_locations_cache, synced, pc, turn, gen, calls, result,
                 response, raised>>

NextGoals == RecordInteraction

SpecGoals == InitGoals /\ [][NextGoals]_vars

(***************************************************************************)
(* Completed turns recorded in a SessionStore of any cap.                  *)
(***************************************************************************)
\* the replies of completed turns: a text, or the empty reply
TurnReplies == { <<"o","k">>, <<>> }

InitPairs ==
  /\ cls_text = <<>>
  /\ cls_intent = Pending
  /\ settings \in {s \in PipelineSettings : s.tier1_enabled}
  /\ locations_file = "valid"
  /\ known_locations_cache = NoCache
  /\ sessions = [sid \in SessionKeys |-> NoSession]
  /\ synced = TRUE
  /\ pc = "idle"
  /\ turn = NoTurn
  /\ gen = NoGen
  /\ calls = <<>>
  /\ result = NoResult
  /\ response = NoResponse
  /\ raised = NoException
  /\ last_update = NoUpdate
  /\ turns = 0
  /\ max_history_turns \in 0..MaxHistoryCap
  /\ auto_persist \in BOOLEAN
  /\ state_sessions = [sid \in SessionKeys |-> AbsentSession]
  /\ disk_sessions = state_sessions
  /\ now = 0
  /\ appended = [sid \in SessionKeys |-> <<>>]
  /\ last_call = NoCall
  /\ store_calls = 0
  /\ IoAtRest

\* run_pipeline, step 11: the sanitized text and the reply, both strings
CompletedTurn ==
  /\ store_calls < MaxStoreCalls
  /\ \E session_id \in SessionKeys, assistant_text \in TurnReplies :
       /\ state_sessions' =
            SessionStore_update_from_interaction(state_sessions, session_id,
                                    <<"h","i">>, assistant_text, "CHATBOT", now,
                                    max_history_turns)
       /\ appended' =
            [appended EXCEPT ![session_id] =
               @ \o NewTurns(<<"h","i">>, assistant_text)]
       /\ Sync("update_from_interaction", session_id,
               state_sessions' # state_sessions, None)
  /\ store_calls' = store_calls + 1
  /\ UNCHANGED <<max_history_turns, auto_persist, now>>
  /\ UNCHANGED <<pipeline_vars, io_vars>>

NextPairs == CompletedTurn

SpecPairs == InitPairs /\ [][NextPairs]_vars

(***************************************************************************)
(* tools/dev/ws_chat_client.py: the reconnecting client.                   *)
(***************************************************************************)
\* the payload of the n-th question typed
Payload(n) ==
  CASE n = 1 -> "q1" [] n = 2 -> "q2" [] n = 3 -> "q3" [] OTHER -> "q4"

OnlyClient ==
  UNCHANGED <<pipeline_vars, store_vars, write_vars, lookup_vars,
              telemetry_vars, task_vars, unit_vars>>

\* run_with_reconnect: except ConnectionClosed / OSError / Exception set
\* pending_payload = None
after_generic_close(pending) == None

\* websockets.connect(): the connection is made, or OSError
Connect ==
  /\ client_pc = "connect"
  /\ attempt < MaxAttempts
  /\ attempt' = attempt + 1
  /\ \/ /\ client_pc' = IF pending_payload # None THEN "resend" ELSE "input"
        /\ UNCHANGED pending_payload
     \/ /\ client_pc' = "connect"
        /\ pending_payload' = after_generic_close(pending_payload)
  /\ sent' = <<>>
  /\ UNCHANGED <<in_flight_payload, asked, unanswered>>
  /\ OnlyClient

\* step 1: ws.send(pending_payload), outside any try block
Resend ==
  /\ client_pc = "resend"
  /\ \/ /\ sent' = Append(sent, pending_payload)
        /\ client_pc' = "recv_pending"
        /\ UNCHANGED pending_payload
     \/ /\ client_pc' = "connect"
        /\ pending_payload' = after_generic_close(pending_payload)
        /\ UNCHANGED sent
  /\ UNCHANGED <<in_flight_payload, attempt, asked, unanswered>>
  /\ OnlyClient

\* step 1: ws.recv() for the pending message: its reply, or the connection
\* is closed and PendingMessage(pending_payload) is raised
RecvPending ==
  /\ client_pc = "recv_pending"
  /\ \/ /\ client_pc' = "input"
        /\ unanswered' = None
     \/ /\ client_pc' = "connect"
        /\ UNCHANGED unanswered
  /\ UNCHANGED <<pending_payload, in_flight_payload, attempt, asked, sent>>
  /\ OnlyClient

\* step 2: a question is typed and sent, or the send finds the connection
\* closed
Ask ==
  /\ client_pc = "input"
  /\ asked < MaxQuestions
  /\ asked' = asked + 1
  /\ \/ /\ in_flight_payload' = Payload(asked + 1)
        /\ sent' = Append(sent, Payload(asked + 1))
        /\ unanswered' = Payload(asked + 1)
        /\ client_pc' = "recv"
        /\ UNCHANGED pending_payload
     \/ /\ client_pc' = "connect"
        /\ pending_payload' = after_generic_close(pending_payload)
        /\ UNCHANGED <<in_flight_payload, sent, unanswered>>
  /\ UNCHANGED attempt
  /\ OnlyClient

\* step 2: ws.recv(): the reply, or the connection is closed and
\* PendingMessage(in_flight_payload) is raised
Recv ==
  /\ client_pc = "recv"
  /\ \/ /\ client_pc' = "input"
        /\ in_flight_payload' = None
        /\ unanswered' = None
        /\ UNCHANGED pending_payload
     \/ /\ client_pc' = "connect"
        /\ pending_payload' = in_flight_payload
        /\ UNCHANGED <<in_flight_payload, unanswered>>
  /\ UNCHANGED <<attempt, asked, sent>>
  /\ OnlyClient

\* /quit, or Ctrl+C
Quit ==
  /\ client_pc = "input"
  /\ client_pc' = "exit"
  /\ UNCHANGED <<pending_payload, in_flight_payload, attempt, asked,
                 unanswered, sent>>
  /\ OnlyClient

InitClient ==
  /\ cls_text = <<>>
  /\ cls_intent = Pending
  /\ settings \in {s \in PipelineSettings : s.tier1_enabled}
  /\ locations_file = "valid"
  /\ known_locations_cache = NoCache
  /\ sessions = [sid \in SessionKeys |-> NoSession]
  /\ synced = TRUE
  /\ pc = "idle"
  /\ turn = NoTurn
  /\ gen = NoGen
  /\ calls = <<>>
  /\ result = NoResult
  /\ response = NoResponse
  /\ raised = NoException
  /\ last_update = NoUpdate
  /\ turns = 0
  /\ StoreAtRest
  /\ IoAtRest

NextClient ==
  \/ Connect
  \/ Resend
  \/ RecvPending
  \/ Ask
  \/ Recv
  \/ Quit

SpecClient == InitClient /\ [][NextClient]_vars
(***************************************************************************)
(* Properties of classify_intent (under SpecClassify).                     *)
(***************************************************************************)
\* C1: whenever the normalized text contains a STOP keyword as a substring,
\* classify_intent returns STOP, whichever FOLLOW, NAVIGATE or STATUS
\* keywords the text contains as well.
StopKeywordGivesStop ==
  (cls_intent # Pending /\ AnyIn(STOP_KEYWORDS, normalize(cls_text)))
    => cls_intent = "STOP"

\* a text with a STOP, a FOLLOW and a NAVIGATE keyword was classified
StopAmongOtherKeywords ==
  /\ cls_intent = "STOP"
  /\ AnyIn(FOLLOW_KEYWORDS, normalize(cls_text))
  /\ AnyIn(NAVIGATE_KEYWORDS, normalize(cls_text))

\* the first category, in the order STOP, FOLLOW, NAVIGATE, STATUS, one of
\* whose keywords occurs in the text, CHATBOT when there is none
FirstCategory(t) ==
  IF AnyIn(STOP_KEYWORDS, t) THEN "STOP"
  ELSE IF AnyIn(FOLLOW_KEYWORDS, t) THEN "FOLLOW"
  ELSE IF AnyIn(NAVIGATE_KEYWORDS, t) THEN "NAVIGATE"
  ELSE IF AnyIn(STATUS_KEYWORDS, t) THEN "STATUS"
  ELSE "CHATBOT"

\* C2: for every text, classify_intent returns one of the five labels: the
\* first category in the order STOP, FOLLOW, NAVIGATE, STATUS with a keyword
\* occurring in the normalized text, and CHATBOT when no category matches or
\* the text is empty or whitespace only.
ClassifyFirstMatch ==
  cls_intent # Pending =>
    /\ cls_intent \in IntentLabels
    /\ cls_intent = FirstCategory(normalize(cls_text))
    /\ (\A i \in 1..Len(cls_text) : IsSpace(cls_text[i])) => cls_intent = "CHATBOT"

\* a text with a NAVIGATE keyword after other words and a STATUS keyword was
\* classified NAVIGATE
NavigateBeforeStatus ==
  /\ cls_intent = "NAVIGATE"
  /\ AnyIn(STATUS_KEYWORDS, normalize(cls_text))
  /\ Find(normalize(cls_text), <<"t","a","k","e"," ","m","e"," ","t","o">>) > 1

(***************************************************************************)
(* Properties of run_pipeline (under Spec).                                *)
(***************************************************************************)
\* the member of the structured payload of the generated text, None when
\* there is no payload or no such member
PayloadMember(key) == ParsedGet(extract_final_json_block(result.text), key)

\* C3: the intent of every ChatResponse returned by run_pipeline is the
\* classifier's result for the sanitized user text, whatever intent the
\* payload of the generated text carries (valid, invalid, or none).
ResponseIntentIsClassifiers ==
  pc = "done" => response.intent = classify_intent(turn.clean_user_text)

\* a turn returned STOP although the payload said NAVIGATE
PayloadIntentOverruled ==
  /\ pc = "done"
  /\ PayloadMember("intent") = <<"N","A","V","I","G","A","T","E">>
  /\ response.intent = "STOP"

\* C4: in every ChatResponse returned and in every session update made by a
\* turn, nav_goal is non-null only when the final intent is FOLLOW or
\* NAVIGATE, even when the payload proposes a goal.
NavGoalOnlyForNavIntents ==
  /\ (pc = "done" /\ response.nav_goal # NoText)
       => response.intent \in {"FOLLOW", "NAVIGATE"}
  /\ last_update.nav_goal # NoText
       => last_update.intent \in {"FOLLOW", "NAVIGATE"}

\* a STATUS turn returned without a goal although the payload proposed one
PayloadGoalDropped ==
  /\ pc = "done"
  /\ response.intent = "STATUS"
  /\ PayloadMember("nav_goal") = <<"C","a","f","e","t","e","r","i","a">>
  /\ response.nav_goal = NoText
  /\ last_update.nav_goal = NoText

(***************************************************************************)
(* Properties of generate_reply_text (under SpecGenerate).                 *)
(***************************************************************************)
\* the place of a call in the fixed order of the chain
Rank(call) ==
  IF call.tier = "tier1" THEN call.idx
  ELSE IF call.tier = "tier2" THEN Len(settings.tier1_model_candidates) + 1
  ELSE Len(settings.tier1_model_candidates) + 2

\* C5: providers are attempted in the order tier-1 candidates (in list
\* order), tier 2, tier 3; the first attempt that returns text ends the
\* chain, no provider is called after it, and used_tier names the tier that
\* produced the text.
ChainOrder ==
  /\ \A i, j \in DOMAIN calls : i < j => Rank(calls[i]) < Rank(calls[j])
  /\ \A i \in DOMAIN calls : calls[i].tier = "tier1" => calls[i].idx = i
  /\ \A i \in DOMAIN calls : calls[i].ok => i = Len(calls)
  /\ pc = "generated" =>
       /\ calls # <<>>
       /\ calls[Len(calls)].ok
       /\ result.used_tier = calls[Len(calls)].tier

\* tier 2 answered after two tier-1 candidates had failed
Tier2AnsweredAfterTier1 ==
  /\ pc = "generated"
  /\ Len(calls) = 3
  /\ result.used_tier = "tier2"

\* every tier-1 candidate was attempted and failed
AllTier1Failed(upto) ==
  \A k \in 1..Len(settings.tier1_model_candidates) :
    \E i \in 1..upto : calls[i] = [tier |-> "tier1", idx |-> k, ok |-> FALSE]

\* C6: when every tier-1 candidate raised a recoverable error and tier 2 is
\* disabled, the result has non-empty text from the template tier and
\* used_tier is tier3.
TemplateWhenTier1FailsAndTier2Off ==
  (pc = "generated" /\ ~settings.tier2_enabled /\ AllTier1Failed(Len(calls)))
    => /\ result.used_tier = "tier3"
       /\ result.text # <<>>
       /\ \A i \in DOMAIN result.text : result.text[i].v # <<>>

\* the template tier answered a STATUS request after two failed tier-1
\* candidates, tier 2 being disabled
TemplateAfterTwoFailures ==
  /\ pc = "generated"
  /\ ~settings.tier2_enabled
  /\ gen.intent = "STATUS"
  /\ Len(calls) = 3
  /\ AllTier1Failed(2)
  /\ result.used_tier = "tier3"

\* tier 1 is not attempted at all
Tier1Skipped ==
  \/ ~settings.tier1_enabled
  \/ settings.tier1_api_key = ""
  \/ settings.tier1_model_candidates = <<>>

\* C7: tier 2 is attempted only if tier 1 was skipped or every tier-1
\* candidate was attempted and failed; tier 3 is attempted only if tier 2 is
\* disabled or was attempted and failed.
FallThroughOnlyWhenExhausted ==
  \A i \in DOMAIN calls :
    /\ calls[i].tier = "tier2" => (Tier1Skipped \/ AllTier1Failed(i - 1))
    /\ calls[i].tier = "tier3" =>
         \/ ~settings.tier2_enabled
         \/ \E j \in 1..(i - 1) : calls[j].tier = "tier2" /\ ~calls[j].ok

\* the chain reached tier 3 through two failed candidates and a failed tier 2
FellThroughEveryTier ==
  /\ Len(calls) = 4
  /\ calls[3].tier = "tier2"
  /\ calls[4].tier = "tier3"

\* C8: within one call each provider (each tier-1 candidate, tier 2, tier 3)
\* is called at most once; a provider that failed is not retried.
EachProviderOnce ==
  \A i, j \in DOMAIN calls :
    i # j => <<calls[i].tier, calls[i].idx>> # <<calls[j].tier, calls[j].idx>>

\* a candidate failed and the chain went on to the next one
MovedOnAfterFailure ==
  /\ pc = "tier1"
  /\ gen.idx = 2
  /\ Len(calls) = 1
  /\ ~calls[1].ok

\* C9 (as stated): no failure of a single provider call leaves
\* generate_reply_text.  Violated: a 200 reply of tier 2 whose JSON is not an
\* object, or whose "message" is not an object, raises AttributeError, which
\* is not a Tier2Error.
ProviderFailureNeverPropagates == raised.at # "_call_ollama"

(***************************************************************************)
(* Termination of the turn (under Spec).                                   *)
(***************************************************************************)
\* C10 (as stated): run_pipeline returns a ChatResponse without raising,
\* whatever fails during the turn.  Violated: a directory file that does not
\* load, a live-fact reply that is not a JSON object, a user text that is
\* empty once sanitized, and the tier-2 AttributeError all leave run_pipeline.
RunPipelineNeverRaises == pc # "raised"

(***************************************************************************)
(* Properties of the results of generate_reply_text (under SpecGenerate).  *)
(***************************************************************************)
\* C11: every result returned by generate_reply_text has non-empty text,
\* whichever tier produced it: a provider's blank content counts as an
\* error, and the template tier has a non-empty line for every intent, goal
\* guess and user text.
ResultTextNonEmpty ==
  pc = "generated" =>
    /\ result.text # <<>>
    /\ \A i \in 1..Len(result.text) :
         result.text[i].t = "txt" => result.text[i].v # <<>>

\* the template tier answered a CHATBOT turn without a goal guess after
\* every provider failed
TemplateAnsweredEveryIntent ==
  /\ pc = "generated"
  /\ result.used_tier = "tier3"
  /\ gen.intent = "CHATBOT"
  /\ gen.nav_goal_guess = NoText
  /\ Len(calls) = 4

(***************************************************************************)
(* Properties of the reply of a turn (under Spec).                         *)
(***************************************************************************)
\* the generated text holds no brace at all
NoBraces(toks) == \A i \in 1..Len(toks) : toks[i].t = "txt"

\* the characters of a generated text without braces
RECURSIVE ProseOf(_)
ProseOf(toks) ==
  IF toks = <<>> THEN <<>> ELSE Head(toks).v \o ProseOf(Tail(toks))

\* C12: when the generated text holds no embedded structured object, the
\* reply_text of the turn is the whole generated text capped to the reply
\* limit and the intent is the classifier's.  (The diagnostic code of the
\* claim has no place in the ChatResponse or the ModelCallResult.)
NoPayloadGivesRawText ==
  (pc = "done" /\ NoBraces(result.text)) =>
    /\ response.reply_text
         = clamp_reply_text(ProseOf(result.text), settings.max_reply_chars)
    /\ response.intent = turn.intent

\* the generated text before the opening brace of the payload
TextBeforePayload ==
  LET end == RFindToken(result.text, "rb", Len(result.text) + 1)
      start == RFindToken(result.text, "lb", end)
  IN ProseOf(SelectSeq(SubSeq(result.text, 1, start - 1),
                       LAMBDA tok : tok.t = "txt"))

\* C13: when the structured payload decodes, the reply is its reply_text if
\* non-empty, otherwise the generated text before the opening brace,
\* otherwise a canned greeting; the reply_text of a turn is never empty.
DecodedReplyNeverEmpty ==
  (pc = "done" /\ extract_final_json_block(result.text) # NoJson) =>
    LET own == PayloadMember("reply_text")
        before == TextBeforePayload
        cap == settings.max_reply_chars
    IN /\ Truthy(own) => response.reply_text = clamp_reply_text(own, cap)
       /\ (~Truthy(own) /\ Strip(before) # <<>>) =>
            response.reply_text \in { clamp_reply_text(before, cap),
                                      clamp_reply_text(Strip(before), cap) }
       /\ response.reply_text # <<>>

\* C14: with the online and local providers disabled, the turn for
\* 'stop please' returns intent STOP, no nav_goal, tier_used tier3 and the
\* reply 'Okay, I stop here and wait.'.
StopPleaseScenario ==
  (/\ pc = "done"
   /\ ~settings.tier1_enabled
   /\ ~settings.tier2_enabled
   /\ turn.clean_user_text = <<"s","t","o","p"," ","p","l","e","a","s","e">>) =>
    /\ response.intent = "STOP"
    /\ response.nav_goal = NoText
    /\ response.tier_used = "tier3"
    /\ response.reply_text = <<"O","k","a","y",","," ","I"," ","s","t","o","p"," ","h","e","r","e"," ","a","n","d"," ","w","a","i","t",".">>

\* C16: with A201 in the location directory, the turn for 'can you take me
\* to A201' returns intent NAVIGATE and nav_goal A201, the canonical name,
\* and the reply names the destination, whichever tier answers.
TakeMeToA201Scenario ==
  (/\ pc = "done"
   /\ locations_file = "valid"
   /\ turn.clean_user_text = <<"c","a","n"," ","y","o","u"," ","t","a","k","e"," ","m","e"," ","t","o"," ","A","2","0","1">>) =>
    /\ response.intent = "NAVIGATE"
    /\ response.nav_goal = <<"A","2","0","1">>
    /\ In(<<"A","2","0","1">>, response.reply_text)

(***************************************************************************)
(* Properties of steps 9 to 11 of run_pipeline (under SpecReply).          *)
(***************************************************************************)
\* C15: when the resolver produced a canonical goal for the turn, the final
\* nav_goal is that canonical goal whatever nav_goal the payload proposes;
\* the payload's nav_goal is used only when no canonical goal was resolved.
CanonicalGoalWins ==
  pc = "done" =>
    /\ Truthy(turn.canonical_nav_goal)
         => response.nav_goal = turn.canonical_nav_goal
    /\ (response.nav_goal # NoText
        /\ response.nav_goal # turn.canonical_nav_goal)
         => /\ ~Truthy(turn.canonical_nav_goal)
            /\ response.nav_goal = PayloadMember("nav_goal")

\* the payload proposed Cafeteria and the turn returned the resolved A201
PayloadGoalOverruled ==
  /\ pc = "done"
  /\ turn.canonical_nav_goal = <<"A","2","0","1">>
  /\ PayloadMember("nav_goal") = <<"C","a","f","e","t","e","r","i","a">>
  /\ response.nav_goal = <<"A","2","0","1">>

\* the larger of two integers
Max(a, b) == IF a >= b THEN a ELSE b

\* C17, as claimed: every reply_text returned by run_pipeline has length at
\* most the configured cap, for every cap, caps of 0 or less included.
ReplyWithinCap ==
  pc = "done" => Len(response.reply_text) <= settings.max_reply_chars

\* C17, amended: every reply_text returned by run_pipeline has length at
\* most the configured cap when the cap is 0 or more, and is empty when the
\* cap is 0 or less.
ReplyWithinCapOrEmpty ==
  pc = "done" => Len(response.reply_text) <= Max(settings.max_reply_chars, 0)

\* a reply longer than a cap of 3 or less was cut to the cap
CutToSmallCap ==
  /\ pc = "done"
  /\ settings.max_reply_chars \in 1..3
  /\ Len(PayloadMember("reply_text")) > settings.max_reply_chars
  /\ Len(response.reply_text) = settings.max_reply_chars

\* C18, as claimed: for every reply longer than the cap, clamp_reply_text
\* returns a string whose length is exactly the cap, the marker included.
ClampedToExactlyCap ==
  (pc = "done"
   /\ Len(PayloadMember("reply_text")) > settings.max_reply_chars)
    => Len(response.reply_text) = settings.max_reply_chars

\* C18, amended: for every reply longer than the cap, clamp_reply_text
\* returns a string of length at most the cap (empty for a cap of 0 or
\* less); for a cap above 3 it ends with the marker, and its length is
\* exactly the cap when the cap is 1 to 3 or the character before the cut
\* is not whitespace.
ClampedToCap ==
  (pc = "done"
   /\ Len(PayloadMember("reply_text")) > settings.max_reply_chars)
    => LET own == PayloadMember("reply_text")
           cap == settings.max_reply_chars
           got == response.reply_text
       IN /\ Len(got) <= Max(cap, 0)
          /\ cap > 3 => /\ Len(got) >= 3
                        /\ SubSeq(got, Len(got) - 2, Len(got)) = <<".", ".", ".">>
          /\ (cap \in 1..3 \/ (cap > 3 /\ ~IsSpace(own[cap - 3])))
               => Len(got) = cap

\* a reply was cut before a blank and came out shorter than the cap
CutShorterThanCap ==
  /\ pc = "done"
  /\ settings.max_reply_chars > 3
  /\ Len(PayloadMember("reply_text")) > settings.max_reply_chars
  /\ Len(response.reply_text) \in 4..(settings.max_reply_chars - 1)

(***************************************************************************)
(* Properties of the session store (under SpecSessions).                   *)
(***************************************************************************)
\* the last n elements of a sequence
Suffix(seq, n) == SubSeq(seq, Len(seq) - n + 1, Len(seq))

\* C19: after any sequence of update_from_interaction calls, for every
\* configured cap N >= 0, the history of each session holds at most N
\* turns, and they are the most recently appended turns in append order.
HistoryWithinCap ==
  \A sid \in SessionKeys :
    state_sessions[sid].exists =>
      LET history == state_sessions[sid].history
          kept == IF Len(appended[sid]) > max_history_turns
                    THEN max_history_turns ELSE Len(appended[sid])
      IN /\ Len(history) <= max_history_turns
         /\ history = Suffix(appended[sid], kept)

\* C20: with auto-persist on and writes succeeding, after every SessionStore
\* call that changed the state in memory (get_or_create_session,
\* update_from_interaction, delete_session, prune_stale_sessions) has
\* returned, the snapshot on storage equals the state in memory.
SnapshotMatchesMemory ==
  (auto_persist /\ last_call.changed /\ last_call.write # "failed")
    => disk_sessions = state_sessions

(***************************************************************************)
(* The session store across restarts, pruning and several sessions.        *)
(***************************************************************************)
\* C21: a store constructed from a persisted snapshot holds, for every
\* session, at most max_history_turns turns, and they are the most recent
\* turns of the saved history in their order.
LoadedHistoryWithinCap ==
  last_call.op = "_load_from_disk" =>
    \A sid \in SessionKeys :
      /\ Len(state_sessions[sid].history) <= max_history_turns
      /\ state_sessions[sid].history =
           Suffix(disk_sessions[sid].history,
                  IF Len(disk_sessions[sid].history) < max_history_turns
                    THEN Len(disk_sessions[sid].history)
                    ELSE max_history_turns)

\* C23: prune_stale_sessions(max_age) removes exactly the sessions whose
\* last_seen is older than now minus max_age, leaves every other session as
\* it was and returns the number removed; with max_age <= 0 it removes
\* nothing and returns 0.
PruneRemovesExactlyTheStale ==
  [][ (store_calls' # store_calls /\ last_call'.op = "prune_stale_sessions") =>
        LET max_age == last_call'.arg
            older == { sid \in SessionKeys :
                         /\ state_sessions[sid].exists
                         /\ max_age > 0
                         /\ state_sessions[sid].last_seen < now - max_age }
        IN /\ \A sid \in older : ~ state_sessions'[sid].exists
           /\ \A sid \in SessionKeys \ older :
                state_sessions'[sid] = state_sessions[sid]
           /\ last_call'.returned = Cardinality(older)
           /\ (max_age <= 0 =>
                 /\ state_sessions' = state_sessions
                 /\ last_call'.returned = 0) ]_vars

\* C23 witness: a prune removed one session and kept a younger one
PrunedOneKeptOne ==
  /\ last_call.op = "prune_stale_sessions"
  /\ last_call.returned = 1
  /\ \E sid \in SessionKeys : state_sessions[sid].exists

\* C24: a session in the store stays in it until delete_session is called
\* for its id or a prune_stale_sessions call finds it stale.
RemovedOnlyByDeleteOrPrune ==
  [][ \A sid \in SessionKeys :
        (state_sessions[sid].exists /\ ~ state_sessions'[sid].exists) =>
          \/ /\ last_call'.op = "delete_session"
             /\ last_call'.arg = sid
          \/ /\ last_call'.op = "prune_stale_sessions"
             /\ last_call'.arg > 0
             /\ state_sessions[sid].last_seen < now - last_call'.arg ]_vars

\* C24 witness: a session was deleted by its id while the other one, made
\* before it, is still there
DeletedOneOtherStays ==
  /\ last_call.op = "delete_session"
  /\ last_call.changed
  /\ ~ state_sessions[last_call.arg].exists
  /\ \E sid \in SessionKeys : sid # last_call.arg /\ state_sessions[sid].exists

\* C25: update_from_interaction for one session leaves the history, last
\* intent, last goal and timestamps of every other session as they were.
UpdateLeavesOtherSessions ==
  [][ (store_calls' # store_calls /\ last_call'.op = "update_from_interaction") =>
        \A sid \in SessionKeys :
          sid # last_call'.arg => state_sessions'[sid] = state_sessions[sid] ]_vars

\* C25 witness: both sessions hold turns, the last update appended to one
\* of them at a later instant than the other was last seen
UpdatedBesideAnotherSession ==
  /\ last_call.op = "update_from_interaction"
  /\ last_call.changed
  /\ state_sessions[last_call.arg].history # <<>>
  /\ \E sid \in SessionKeys :
       /\ sid # last_call.arg
       /\ state_sessions[sid].exists
       /\ state_sessions[sid].history # <<>>
       /\ state_sessions[sid].last_seen < state_sessions[last_call.arg].last_seen

SessionsFileNeverPartial ==
  /\ files[SessionsPath].exists
  /\ files[SessionsPath].written = MaxChunks
  /\ files[SessionsPath].data \in {write_prev, write_new}

\* C22 witness: a write failed with a part of the new text written; the
\* file still holds the snapshot of an earlier write that went through
WriteFailedMidway ==
  /\ write_pc = "idle"
  /\ files[tmp_path(SessionsPath)].exists
  /\ files[tmp_path(SessionsPath)].written \in 1..(MaxChunks - 1)
  /\ files[tmp_path(SessionsPath)].data = write_new
  /\ files[SessionsPath].data = write_prev
  /\ write_prev > 0

(***************************************************************************)
(* The location cache (under SpecLocations).                               *)
(***************************************************************************)
\* the name find_by_name gives for a text in the directory of a file
NameIn(file, text) ==
  find_by_name(KnownLocations_load(file).locations, text).canonical_name

\* C30: the directory is read from storage only when the cache is empty or
\* a force-reload is requested: every resolve_nav_goal answers from the
\* directory of the last load, whatever is on storage since, and from the
\* new directory once get_known_locations(force_reload=True) has read it.
ResolvesFromLastLoad ==
  (resolved.text # NoText /\ ~ resolved.raised) =>
    /\ resolved.loaded # None
    /\ resolved.goal = NameIn(resolved.loaded, resolved.text)

\* C30 witness: the stored directory has changed since the load, and the
\* lookup still gave the name of the directory loaded
StaleUntilReloaded ==
  /\ resolved.text # NoText
  /\ ~ resolved.raised
  /\ resolved.file = "updated"
  /\ resolved.loaded = "valid"
  /\ resolved.goal # NameIn(resolved.file, resolved.text)

TurnEntries(t) ==
  { i \in 1..Len(shared_history) :
      /\ shared_history[i].task = t
      /\ shared_history[i].turn = task_turns[t].received }

\* C26: a turn whose client went away while it was waiting for a provider
\* is abandoned: no turn of it is appended to the session history (nor
\* written to the snapshot with it).
AbandonedTurnLeavesNoTrace ==
  \A t \in Tasks :
    left_at[t] \in {"tier1", "tier2"} => TurnEntries(t) = {}

\* the tasks inside run_pipeline, between the read of the history and the
\* return after the update
InPipeline(t) == task_pc[t] \in ProviderPoints \cup {"generated"}

\* C27: with several turns running as concurrent tasks, at most one
\* provider attempt is in flight at any time, no step of another turn runs
\* while a turn is between its read of the history and its update, and
\* every turn that reached its update is in the history (as far back as
\* MAX_HISTORY_TURNS keeps it), user turn then assistant turn, none lost.
\* the provider attempts in flight
InFlight == {t \in Tasks : task_pc[t] \in ProviderPoints}

\* the turns that reached their update, all tasks together
UpdatesMade ==
  Cardinality({ tk \in Tasks \X (1..MaxTaskTurns) :
                  tk[2] <= task_turns[tk[1]].updated })

\* every turn that reached its update is in the history, whole and once,
\* as far as MAX_HISTORY_TURNS goes back
NoLostUpdate ==
  /\ Len(shared_history) =
       (IF 2 * UpdatesMade < MAX_HISTORY_TURNS THEN 2 * UpdatesMade
        ELSE MAX_HISTORY_TURNS)
  /\ \A i \in 1..Len(shared_history) :
       /\ shared_history[i].role = "user" =>
            /\ i < Len(shared_history)
            /\ shared_history[i + 1] =
                 [shared_history[i] EXCEPT !.role = "assistant"]
       /\ \A j \in 1..Len(shared_history) :
            shared_history[j] = shared_history[i] => j = i

TurnsSerialised ==
  [][ /\ Cardinality(InFlight') <= 1
      /\ \A t \in Tasks :
           InPipeline(t) =>
             \A u \in Tasks \ {t} :
               /\ task_pc'[u] = task_pc[u]
               /\ task_turns'[u] = task_turns[u]
      /\ NoLostUpdate' ]_vars

\* C27 witness: two tasks have each had a turn on the session, and both
\* turns are in the history
TwoTasksBothInHistory ==
  /\ \A t \in Tasks : task_turns[t].updated >= 1
  /\ Len(shared_history) >= 4
  /\ shared_history[1].task # shared_history[3].task


\* ---------------------------------------------------------------------
\* the /ws/chat frame loop
\* ---------------------------------------------------------------------

\* task t took a step of its handler
Stepped(t) ==
  \/ task_pc'[t] # task_pc[t]
  \/ task_turns'[t] # task_turns[t]

\* task t read a frame in this step
ReadFrame(t) == task_turns'[t].received = task_turns[t].received + 1

\* a frame was read and its reply is still owed
Owed(t) == InPipeline(t) \/ task_pc[t] \in {"send_json", "raised"}

\* C31: a frame that fails ChatRequest validation never enters the
\* pipeline: the step that reads it sends the invalid_chat_request frame,
\* leaves the shared history alone, starts no provider request and stays
\* at receive_json with the connection open.
InvalidFrameRejected ==
  [][ \A t \in Tasks :
        (ReadFrame(t) /\ task_io'[t].frame = "invalid")
          => /\ task_pc'[t] = "receive_json"
             /\ task_io'[t].out = "invalid_chat_request"
             /\ task_io'[t].close_code = None
             /\ shared_history' = shared_history
             /\ task_turns'[t].updated = task_turns[t].updated ]_vars

InvalidFrameAnswered ==
  \E t \in Tasks :
    /\ task_io[t].frame = "invalid"
    /\ task_io[t].out = "invalid_chat_request"
    /\ task_pc[t] = "receive_json"
    /\ connected[t]

\* C36: every frame read on /ws/chat is answered by exactly one frame
\* before the next read (nothing is sent while the reply is owed, the step
\* that ends the turn sends the ChatResponse or the error frame to a client
\* that is still there, a frame that starts no turn is answered in the step
\* that read it); a pipeline failure is answered by pipeline_error and
\* close code 1011; a closed handler takes no further step.
OneReplyPerFrame ==
  [][ \A t \in Tasks :
        /\ (Owed(t) /\ Stepped(t) /\ Owed(t)') => task_io'[t].out = None
        /\ (Owed(t) /\ ~ Owed(t)' /\ connected[t])
             => task_io'[t].out \in {"chat_response", "pipeline_error"}
        /\ (ReadFrame(t) /\ ~ Owed(t)') => task_io'[t].out # None
        /\ (task_pc[t] = "raised" /\ Stepped(t))
             => /\ task_pc'[t] = "closed"
                /\ task_io'[t].close_code = "1011"
                /\ connected[t] => task_io'[t].out = "pipeline_error"
        /\ task_pc[t] = "closed"
             => /\ task_pc'[t] = "closed"
                /\ task_turns'[t] = task_turns[t] ]_vars

\* ---------------------------------------------------------------------
\* extract_nav_goal (under SpecExtract)
\* ---------------------------------------------------------------------

\* the filler words a goal may not start with
LeadingFillers == { <<"t","h","e">>, <<"r","o","o","m">>, <<"t","o">>, <<"m","y">>, <<"m","e">>, <<"u","s">> }

\* a trigger phrase occurs in the normalized text
TriggerOccurs(t, n) == In(trigger_phrases[n], t)

\* what follows the first occurrence of trigger n, trimmed
RemainderAfter(t, n) ==
  Strip(SubSeq(t, Find(t, trigger_phrases[n]) + Len(trigger_phrases[n]),
               Len(t)))

\* C32: a phrase returned by extract_nav_goal has 1 to 4 words, does not
\* start with a filler word and contains no politeness word; the result is
\* null when no trigger occurs in the text, and when every trigger that
\* occurs is followed by nothing.
GoalIsShortCleanPhrase ==
  extracted.done =>
    LET t == normalize(extracted.user_text)
        goal == extracted.goal
        occurring == { n \in 1..Len(trigger_phrases) : TriggerOccurs(t, n) }
    IN /\ goal # NoText =>
            /\ Len(Split(goal)) \in 1..4
            /\ Head(Split(goal)) \notin LeadingFillers
            /\ \A n \in 1..Len(stop_words) : ~ In(stop_words[n], goal)
       /\ occurring = {} => goal = NoText
       /\ (\A n \in occurring : RemainderAfter(t, n) = <<>>) => goal = NoText

\* ---------------------------------------------------------------------
\* sanitize_user_text (under SpecSanitize)
\* ---------------------------------------------------------------------

\* the control characters (category Cc) of the alphabet that are no
\* whitespace
IsControlCharacter(c) == c \in {"U+0001", "U+007F", "U+009B"}

\* C33: for every input, null included, the sanitized text has at most
\* MAX_USER_CHARS characters, no control character, no whitespace at
\* either end and no two whitespace characters in a row; too_short is true
\* exactly when it is empty, truncated exactly when the collapsed text was
\* longer than the cap.
SanitizedIsClean ==
  cleaned.done =>
    LET s == cleaned.result.sanitized
        collapsed == JoinSpace(Split(RemoveControl(cleaned.result.original)))
    IN /\ Len(s) <= MAX_USER_CHARS
       /\ \A i \in 1..Len(s) : ~ IsControlCharacter(s[i])
       /\ s # <<>> => ~ IsSpace(s[1]) /\ ~ IsSpace(s[Len(s)])
       /\ \A i \in 1..(Len(s) - 1) : ~ (IsSpace(s[i]) /\ IsSpace(s[i + 1]))
       /\ cleaned.result.too_short = (s = <<>>)
       /\ cleaned.result.truncated = (Len(collapsed) > MAX_USER_CHARS)

\* ---------------------------------------------------------------------
\* the nav_goal of the ChatResponse (under Spec)
\* ---------------------------------------------------------------------

\* text is the canonical name of an entry of the directory on storage
IsDirectoryName(text) ==
  LET loaded == KnownLocations_load(locations_file)
  IN /\ ~ loaded.raised
     /\ \E n \in 1..Len(loaded.locations) :
          loaded.locations[n].canonical_name = text

MessagesAreStoredHistory ==
  handed.done =>
    LET n == Len(handed.messages)
    IN /\ n = Len(handed.stored) + 2
       /\ handed.messages[1].role = "system"
       /\ handed.messages[n] = [role |-> "user", content |-> <<"user_prompt">>]
       /\ SubSeq(handed.messages, 2, n - 1) = AsMessages(handed.stored)
       /\ \A i \in 2..n : handed.messages[i].role \in {"user", "assistant"}

\* ---------------------------------------------------------------------
\* the session after a completed turn (under Spec)
\* ---------------------------------------------------------------------

\* C38: after a completed turn the history of the turn's session ends with
\* the user turn holding the sanitized user text and the assistant turn
\* holding the reply_text of the ChatResponse, the session's last intent is
\* the intent of the ChatResponse, and the session id of the response is
\* the id of the session that was updated.
SessionRecordsTheTurn ==
  pc = "done" =>
    LET session == sessions[response.session_id]
        n == Len(session.history)
    IN /\ response.session_id = turn.session_id
       /\ last_update.session_id = response.session_id
       /\ session.exists
       /\ n >= 2
       /\ session.history[n - 1] =
            [role |-> "user", text |-> turn.clean_user_text]
       /\ session.history[n] =
            [role |-> "assistant", text |-> response.reply_text]
       /\ session.last_intent = response.intent

\* a turn with an empty reply_text completed on a session that had history
EmptyReplyRecorded ==
  /\ pc = "done"
  /\ response.reply_text = <<>>
  /\ Len(sessions[response.session_id].history) = 4
  /\ sessions[response.session_id].history[4] =
       [role |-> "assistant", text |-> <<>>]

\* ---------------------------------------------------------------------
\* the last intent and the last navigation goal (under SpecGoals)
\* ---------------------------------------------------------------------

\* C39: a call of update_from_interaction with a null nav_goal leaves the
\* session's last_nav_goal as it was, one with a null intent leaves its
\* last_intent as it was, and a value that is given replaces the old one:
\* after NAVIGATE with goal G and then STOP, the last intent is STOP and
\* the last navigation goal is still G.
NullLeavesLastValue ==
  [][ turns' = turns + 1 =>
        LET call == last_update'
            before == sessions[call.session_id]
            after == sessions'[call.session_id]
        IN /\ after.last_nav_goal =
                IF call.nav_goal = NoText THEN before.last_nav_goal
                ELSE call.nav_goal
           /\ after.last_intent =
                IF call.intent = None THEN before.last_intent
                ELSE call.intent ]_vars

\* the session was told to navigate to A201 and then to stop
GoalKeptAfterStop ==
  \E sid \in SessionKeys :
    /\ Len(sessions[sid].history) = 4
    /\ last_update.session_id = sid
    /\ last_update.intent = "STOP"
    /\ last_update.nav_goal = NoText
    /\ sessions[sid].last_intent = "STOP"
    /\ sessions[sid].last_nav_goal = <<"A","2","0","1">>

\* ---------------------------------------------------------------------
\* the shape of the history (under SpecPairs)
\* ---------------------------------------------------------------------

\* whole (user, assistant) pairs
WholePairs(history) ==
  /\ Len(history) % 2 = 0
  /\ \A i \in 1..Len(history) :
       history[i].role = IF i % 2 = 1 THEN "user" ELSE "assistant"

\* C40, as claimed: after any sequence of completed turns every session's
\* history is whole (user, assistant) pairs, for every history cap.
HistoryIsWholePairs ==
  \A sid \in SessionKeys :
    state_sessions[sid].exists => WholePairs(state_sessions[sid].history)

\* C40, amended: the history is whole pairs for every even cap (0, which
\* never trims, included); for an odd cap the history, once more turns
\* were appended than the cap, holds cap turns and starts with an
\* assistant turn.
HistoryIsWholePairsForEvenCaps ==
  \A sid \in SessionKeys :
    state_sessions[sid].exists =>
      LET history == state_sessions[sid].history
      IN /\ max_history_turns % 2 = 0 => WholePairs(history)
         /\ (max_history_turns % 2 = 1
             /\ Len(appended[sid]) > max_history_turns)
              => /\ Len(history) = max_history_turns
                 /\ history[1].role = "assistant"

\* two turns were recorded under cap 2 and the first pair was dropped whole
TrimmedToWholePair ==
  \E sid \in SessionKeys :
    /\ max_history_turns = 2
    /\ Len(appended[sid]) = 4
    /\ state_sessions[sid].history = SubSeq(appended[sid], 3, 4)
    /\ WholePairs(state_sessions[sid].history)

\* ---------------------------------------------------------------------
\* the dev websocket client (under SpecClient)
\* ---------------------------------------------------------------------

\* C34: a question that was sent and whose reply was not received is kept:
\* whenever the client is between connections or about to send on a new
\* one, the payload it will send first is the unanswered question, across
\* any number of drops, a drop during the re-send included.
PendingQuestionKept ==
  (unanswered # None /\ client_pc \in {"connect", "resend"})
    => pending_payload = unanswered
=============================================================================
